---- MODULE Spec2Model ----
(***************************************************************************)
(* A model of the DistSQL physical planner                                 *)
(* (pkg/sql/distsql_physical_planner.go): the span partitioner, the        *)
(* operator translators (scan, index join, join, aggregation) and the      *)
(* plan finalizer.                                                         *)
(***************************************************************************)
EXTENDS Integers, Sequences, FiniteSets, TLC

(***************************************************************************)
(* Bounds of the model.                                                    *)
(***************************************************************************)
\* Keys are 0..MaxKey; a span or a range [a, b) holds the keys a..b-1.
MaxKey == 3
\* The largest number of input spans of one partitionSpans call.
MaxSpans == 2
\* Node ids are 1..NumNodes.
NumNodes == 2
\* The number of partitionSpans calls made with one planning context.
MaxCalls == 1
\* The processors of a plan are placed on the nodes 1..NumPlanNodes.
NumPlanNodes == 3
\* The number of nodes that hold spans of one scan.
MaxParts == 2
\* The number of aggregates of a groupNode.
MaxAggs == 2
\* The number of rows that one table reader reads.
MaxRows == 2
\* The values of a column are 1..MaxValue, or NULL.
MaxValue == 2
\* Quotients are kept in units of 1/AvgScale.
AvgScale == 12

\* dsp.nodeDesc.NodeID: the gateway node.
Gateway == 1
\* dsp.planVersion: the DistSQL version targeted by the plan.
planVersion == 2

Nodes == 1..NumNodes
Keys == 0..MaxKey

(***************************************************************************)
(* State of the span partitioner.                                          *)
(***************************************************************************)
VARIABLES
    splits,            \* the range boundaries of the key space (the resolver's view)
    advertised,        \* node id -> the address in the node's descriptor
    spans,             \* the input spans of the running partitionSpans call
    spanIdx,           \* index of the span being resolved
    itKey,             \* the iterator's position: a key of its current range
    lastKey,           \* EndKey of the last piece of the current span
    lastNodeID,        \* node of the last piece of the current span, 0 if none
    partitions,        \* the partitions accumulated so far
    nodeMap,           \* node id -> index in partitions, 0 if absent
    nodeVerCompatMap,  \* node id -> "none" | "true" | "false"
    nodeAddresses,     \* planCtx.nodeAddresses: node id -> address, NoEntry if absent
    failedHealth,      \* the nodes whose health check failed during the call
    failedVersion,     \* the nodes found incompatible during the call
    lastAssign,        \* what the last loop iteration decided
    returned,          \* what partitionSpans returned: partitions and error
    calls,             \* number of partitionSpans calls started
    pc,                \* "idle" | "loop" | "done" | "error" | "fatal"
    settings,          \* the cluster settings read by the planner
    plan,              \* the physicalPlan being built
    last,              \* the last translator applied, with its inputs
    phase,             \* "start" | "leaf" | "joined" | "aggregated" | "final"
    tree,              \* the planNode tree handed to CheckSupport
    support            \* what CheckSupport returned for the tree

partVars == <<splits, advertised, spans, spanIdx, itKey, lastKey, lastNodeID, partitions,
              nodeMap, nodeVerCompatMap, nodeAddresses, failedHealth,
              failedVersion, lastAssign, returned, calls, pc>>

planVars == <<settings, plan, last, phase>>

supportVars == <<tree, support>>

vars == <<partVars, planVars, supportVars>>

\* An address is a pair; NoEntry stands for a node id with no entry in the map.
NoEntry == <<"none", 0>>
EmptyAddr == <<"empty", 0>>
\* The address of node n.
AddressOf(n) == <<"addr", n>>

\* Outcomes of the health check of one node: the gossip lookup and the probe.
HealthOutcomes == {"ok", "NotConnected", "NotHeartbeated", "otherErr", "notInGossip"}
\* The version windows a node may advertise: <<MinAcceptedVersion, Version>>.
Unread == <<"unread", 0, 0>>
Unreadable == <<"unreadable", 0, 0>>
VersionInfos == {Unreadable, <<"ver", 1, 3>>, <<"ver", 3, 3>>}

\* A span is a record [Key, EndKey] with Key < EndKey.
SpanOf(a, b) == [Key |-> a, EndKey |-> b]
AllSpans == {SpanOf(a, b) : a \in Keys, b \in Keys} \ {s \in [Key : Keys, EndKey : Keys] : s.Key >= s.EndKey}
KeysOf(s) == s.Key .. (s.EndKey - 1)

\* The span sets a scan hands to partitionSpans: non-empty, ascending, disjoint.
RECURSIVE SpanSeqs(_)
SpanSeqs(n) ==
    IF n = 0 THEN {<<>>}
    ELSE LET shorter == SpanSeqs(n - 1)
         IN  shorter \cup
             {Append(q, s) : q \in {x \in shorter : Len(x) = n - 1}, s \in AllSpans}
SortedDisjoint(q) == \A i \in 1..(Len(q) - 1) : q[i].EndKey <= q[i + 1].Key
SpanSets == {q \in SpanSeqs(MaxSpans) : Len(q) >= 1 /\ SortedDisjoint(q)}

(***************************************************************************)
(* The range resolver iterator (distsqlplan.SpanResolverIterator): it      *)
(* yields the ranges covering the seek span in ascending key order.        *)
(***************************************************************************)
SetMax(S) == CHOOSE x \in S : \A y \in S : y <= x
SetMin(S) == CHOOSE x \in S : \A y \in S : x <= y
\* it.Desc(): the descriptor of the range holding key k.
Desc(k) == [StartKey |-> SetMax({0} \cup {s \in splits : s <= k}),
            EndKey   |-> SetMin({MaxKey} \cup {s \in splits : s > k})]
\* desc.ContainsKey(k)
ContainsKey(d, k) == d.StartKey <= k /\ k < d.EndKey

(***************************************************************************)
(* partitionSpans: the body of the loop over the ranges of one span.       *)
(***************************************************************************)
\* A health check that takes every probe error for a failure.
checkNodeHealth_AnyError(outcome) == outcome # "ok"

\* checkNodeHealth: TRUE when the health check returns an error. The node must
\* be known to gossip, and the probe must not fail; ErrNotConnected and
\* ErrNotHeartbeated are not failures.
checkNodeHealth(outcome) == outcome \in {"otherErr", "notInGossip"}

\* distsqlrun.FlowVerIsCompatible
FlowVerIsCompatible(flowVer, minAcceptedVersion, serverVersion) ==
    flowVer >= minAcceptedVersion /\ flowVer <= serverVersion

\* nodeVersionIsCompatible: FALSE when the version cannot be read from gossip.
nodeVersionIsCompatible(info) ==
    IF info[1] = "unreadable" THEN FALSE
    ELSE FlowVerIsCompatible(planVersion, info[2], info[3])

\* The end key of the range, not limited to the span.
ClipEndKey_RangeEnd(desc, rspan) == desc.EndKey

\* A piece that always ends at the end of the span.
ClipEndKey_SpanEnd(desc, rspan) == rspan.EndKey

\* The end key of the piece: the range's end key limited to the span's end key.
ClipEndKey(desc, rspan) ==
    IF rspan.EndKey < desc.EndKey THEN rspan.EndKey ELSE desc.EndKey

\* Every piece becomes a span of its own.
AddPiece_AlwaysAppend(parts, idx, sameNode, from, to) ==
    [parts EXCEPT ![idx] = [node |-> parts[idx].node,
                            spans |-> Append(parts[idx].spans, SpanOf(from, to))]]

\* A new span is put in front of the spans of the partition.
AddPiece_Prepend(parts, idx, sameNode, from, to) ==
    LET old == parts[idx].spans
        new == IF sameNode
               THEN [old EXCEPT ![Len(old)] = SpanOf(old[Len(old)].Key, to)]
               ELSE <<SpanOf(from, to)>> \o old
    IN  [parts EXCEPT ![idx] = [node |-> parts[idx].node, spans |-> new]]

\* Two consecutive ranges on the same node extend the last span of the
\* partition; otherwise a new span is appended.
AddPiece(parts, idx, sameNode, from, to) ==
    LET old == parts[idx].spans
        new == IF sameNode
               THEN [old EXCEPT ![Len(old)] = SpanOf(old[Len(old)].Key, to)]
               ELSE Append(old, SpanOf(from, to))
    IN  [parts EXCEPT ![idx] = [node |-> parts[idx].node, spans |-> new]]

\* The address partitionSpans works with for a node that is not in nodeMap:
\* the cached one, or replInfo.NodeDesc.Address unless the health check fails.
ResolveAddr(nodeID, outcome) ==
    IF nodeAddresses[nodeID] # NoEntry THEN nodeAddresses[nodeID]
    ELSE IF checkNodeHealth(outcome) THEN EmptyAddr
    ELSE advertised[nodeID]

UseGateway_VersionOnly(addr, compat) == ~compat

\* Whether the gateway is used instead of the node (node not in nodeMap).
UseGateway(addr, compat) == addr = EmptyAddr \/ ~compat

\* A cache that remembers compatible nodes only.
CacheCompat_CompatibleOnly(verCompatMap, nodeID, compat) ==
    IF compat THEN [verCompatMap EXCEPT ![nodeID] = "true"] ELSE verCompatMap

\* nodeVerCompatMap[nodeID] = compat
CacheCompat(verCompatMap, nodeID, compat) ==
    [verCompatMap EXCEPT ![nodeID] = IF compat THEN "true" ELSE "false"]

NoAssign == [valid |-> FALSE, leaseholder |-> 0, nodeID |-> 0, probed |-> FALSE,
             outcome |-> "ok", verLookup |-> FALSE, info |-> Unread, compat |-> TRUE,
             merged |-> FALSE, from |-> 0, to |-> 0, span |-> 0, iterErr |-> "nil"]

\* One iteration of the loop of partitionSpans, for the range the iterator is
\* positioned on; lh is the leaseholder it.ReplicaInfo reports, h is what the
\* health check finds and v the version window gossip holds, if they are asked.
Iterate(lh, h, v) ==
    LET desc       == Desc(itKey)
        rspan      == spans[spanIdx]
        endKey     == ClipEndKey(desc, rspan)
        inNodeMap0 == nodeMap[lh] # 0
        probed     == ~inNodeMap0 /\ nodeAddresses[lh] = NoEntry
        outcome    == h
        addr       == ResolveAddr(lh, outcome)
        verChecked == ~inNodeMap0 /\ addr # EmptyAddr
        verLookup  == verChecked /\ nodeVerCompatMap[lh] = "none"
        info       == v
        compat     == IF ~verChecked THEN TRUE
                      ELSE IF ~verLookup THEN nodeVerCompatMap[lh] = "true"
                      ELSE nodeVersionIsCompatible(info)
        substitute == ~inNodeMap0 /\ UseGateway(addr, compat)
        nodeID     == IF substitute THEN Gateway ELSE lh
        inNodeMap  == nodeMap[nodeID] # 0
        parts1     == IF inNodeMap THEN partitions
                      ELSE Append(partitions, [node |-> nodeID, spans |-> <<>>])
        nodeMap1   == IF inNodeMap THEN nodeMap
                      ELSE [nodeMap EXCEPT ![nodeID] = Len(partitions) + 1]
        parts2     == AddPiece(parts1, nodeMap1[nodeID], lastNodeID = nodeID, lastKey, endKey)
        spanDone   == ~(endKey < rspan.EndKey)
    IN
    /\ pc = "loop"
    /\ UNCHANGED <<planVars, supportVars>>
    /\ ~probed => h = "ok"
    /\ ~verLookup => v = Unreadable
    /\ IF ~ContainsKey(desc, lastKey)
       THEN \* log.Fatalf: next range doesn't cover last end key
            /\ pc' = "fatal"
            /\ UNCHANGED <<splits, advertised, spans, spanIdx, itKey, lastKey, lastNodeID,
                           partitions, nodeMap, nodeVerCompatMap, nodeAddresses,
                           failedHealth, failedVersion, lastAssign, returned, calls>>
       ELSE
            /\ failedHealth' = IF probed /\ checkNodeHealth(outcome)
                               THEN failedHealth \cup {lh} ELSE failedHealth
            /\ failedVersion' = IF verChecked /\ ~compat
                                THEN failedVersion \cup {lh} ELSE failedVersion
            /\ nodeAddresses' = IF probed /\ addr # EmptyAddr
                                THEN [nodeAddresses EXCEPT ![lh] = addr]
                                ELSE nodeAddresses
            /\ nodeVerCompatMap' = IF verLookup
                                   THEN CacheCompat(nodeVerCompatMap, lh, compat)
                                   ELSE nodeVerCompatMap
            /\ partitions' = parts2
            /\ nodeMap' = nodeMap1
            /\ lastAssign' = [valid |-> TRUE, leaseholder |-> lh, nodeID |-> nodeID,
                              probed |-> probed, outcome |-> outcome,
                              verLookup |-> verLookup, info |-> info, compat |-> compat,
                              merged |-> (lastNodeID = nodeID),
                              from |-> lastKey, to |-> endKey, span |-> spanIdx,
                              iterErr |-> "nil"]
            /\ IF spanDone /\ spanIdx = Len(spans)
               THEN /\ pc' = "done"
                    /\ returned' = [partitions |-> parts2, err |-> "nil"]
                    /\ UNCHANGED <<spanIdx, itKey, lastKey, lastNodeID>>
               ELSE IF spanDone
               THEN \* next span: it.Seek(span)
                    /\ spanIdx' = spanIdx + 1
                    /\ itKey' = spans[spanIdx + 1].Key
                    /\ lastKey' = spans[spanIdx + 1].Key
                    /\ lastNodeID' = 0
                    /\ UNCHANGED <<pc, returned>>
               ELSE \* it.Next()
                    /\ itKey' = desc.EndKey
                    /\ lastKey' = endKey
                    /\ lastNodeID' = nodeID
                    /\ UNCHANGED <<pc, returned, spanIdx>>
            /\ UNCHANGED <<splits, advertised, spans, calls>>

PartitionStep == \E lh \in Nodes, h \in HealthOutcomes, v \in VersionInfos : Iterate(lh, h, v)

\* The errors of the iterator: it.Error() of an iterator that is not valid,
\* and the error of it.ReplicaInfo.
IteratorErrors == {"it.Error", "ReplicaInfo error"}

\* A return that hands out the partitions accumulated before the error.
ErrorReturn_Partial(parts, err) == [partitions |-> parts, err |-> err]

\* return nil, err
ErrorReturn(parts, err) == [partitions |-> <<>>, err |-> err]

\* The iterator becomes invalid, or it.ReplicaInfo fails: partitionSpans
\* returns nil and the error.
IterError ==
    /\ pc = "loop"
    /\ UNCHANGED <<planVars, supportVars>>
    /\ pc' = "error"
    /\ \E err \in IteratorErrors :
        /\ returned' = ErrorReturn(partitions, err)
        /\ lastAssign' = [lastAssign EXCEPT !.iterErr = err]
    /\ UNCHANGED <<splits, advertised, spans, spanIdx, itKey, lastKey, lastNodeID, partitions,
                   nodeMap, nodeVerCompatMap, nodeAddresses, failedHealth,
                   failedVersion, calls>>

\* A call of partitionSpans with the planning context: the locals are fresh,
\* planCtx.nodeAddresses is kept.
StartPartitionSpans ==
    /\ pc \in {"idle", "done", "error"}
    /\ UNCHANGED <<planVars, supportVars>>
    /\ calls < MaxCalls
    /\ \E q \in SpanSets :
        /\ spans' = q
        /\ itKey' = q[1].Key
        /\ lastKey' = q[1].Key
    /\ spanIdx' = 1
    /\ lastNodeID' = 0
    /\ partitions' = <<>>
    /\ nodeMap' = [n \in Nodes |-> 0]
    /\ nodeVerCompatMap' = [n \in Nodes |-> "none"]
    /\ lastAssign' = NoAssign
    /\ returned' = [partitions |-> <<>>, err |-> "none"]
    /\ calls' = calls + 1
    /\ pc' = "loop"
    /\ failedHealth' = {}
    /\ failedVersion' = {}
    /\ UNCHANGED <<splits, advertised, nodeAddresses>>

\* NewPlanningCtx: the address map holds the gateway's address.
NewPlanningCtx == [n \in Nodes |-> IF n = Gateway THEN AddressOf(Gateway) ELSE NoEntry]

\* Every node advertises its own address.
OwnAddresses == [n \in Nodes |-> AddressOf(n)]

\* The descriptors of a cluster in which a node may advertise the address of
\* the node before it (the configuration bug sanityCheckAddresses looks for).
AddressConfigs ==
    {f \in [Nodes -> {AddressOf(m) : m \in Nodes}] :
        /\ f[Gateway] = AddressOf(Gateway)
        /\ \A n \in Nodes : f[n] \in {AddressOf(n), AddressOf(n - 1)}}

\* planningCtx.sanityCheckAddresses: the entries of the map are visited in
\* some order (here by node id) and entered into the inverted map; an
\* address that is already there is an error.
RECURSIVE SanityCheckFrom(_, _, _)
SanityCheckFrom(addresses, nodeID, inverted) ==
    IF nodeID > NumNodes THEN "nil"
    ELSE IF addresses[nodeID] = NoEntry
    THEN SanityCheckFrom(addresses, nodeID + 1, inverted)
    ELSE IF addresses[nodeID] \in inverted
    THEN "different nodes with the same address"
    ELSE SanityCheckFrom(addresses, nodeID + 1, inverted \cup {addresses[nodeID]})

sanityCheckAddresses(addresses) == SanityCheckFrom(addresses, 1, {})

PartIdle ==
    /\ spans = <<>>
    /\ spanIdx = 0
    /\ itKey = 0
    /\ lastKey = 0
    /\ lastNodeID = 0
    /\ partitions = <<>>
    /\ nodeMap = [n \in Nodes |-> 0]
    /\ nodeVerCompatMap = [n \in Nodes |-> "none"]
    /\ nodeAddresses = NewPlanningCtx
    /\ failedHealth = {}
    /\ failedVersion = {}
    /\ lastAssign = NoAssign
    /\ returned = [partitions |-> <<>>, err |-> "none"]
    /\ calls = 0
    /\ pc = "idle"


(***************************************************************************)
(* The physical plan (distsqlplan.PhysicalPlan and physicalPlan).          *)
(* Processor indices start at 1; column indices start at 0, and -1 in      *)
(* planToStreamColMap stands for a column that is not in the stream.       *)
(***************************************************************************)
PlanNodes == 1..NumPlanNodes

At(q, i) == q[i + 1]
Range(q) == {q[i] : i \in 1..Len(q)}

PassThrough == [Type |-> "PASS_THROUGH", HashColumns |-> <<>>, Streams |-> <<>>]
ByHash(cols) == [Type |-> "BY_HASH", HashColumns |-> cols, Streams |-> <<>>]
NoPost == [Projection |-> FALSE, OutputColumns |-> <<>>, RenderExprs |-> <<>>]
Projection(cols) == [Projection |-> TRUE, OutputColumns |-> cols, RenderExprs |-> <<>>]

EmptyPlan == [Processors |-> <<>>, Streams |-> <<>>, ResultRouters |-> <<>>,
              ResultTypes |-> <<>>, MergeOrdering |-> <<>>,
              planToStreamColMap |-> <<>>, stageCounter |-> 0]

\* orderingTerminated
orderingTerminated == <<>>

\* PhysicalPlan.SetMergeOrdering: an ordering is kept only between several streams.
SetMergeOrdering(p, o) ==
    [p EXCEPT !.MergeOrdering = IF Len(p.ResultRouters) > 1 THEN o ELSE <<>>]

\* PhysicalPlan.MergeResultStreams: a stream from slot `slot` of every router
\* to input `destInput` of processor `dest`.
MergeResultStreams(p, routers, slot, dest, destInput) ==
    [p EXCEPT !.Streams = @ \o
        [i \in 1..Len(routers) |->
            [SourceProcessor |-> routers[i], SourceRouterSlot |-> slot,
             DestProcessor |-> dest, DestInput |-> destInput]]]

\* A processor with one input of the given column types.
Processor(node, core, post, inTypes, stage) ==
    [Node |-> node, Core |-> core, Post |-> post,
     Input |-> <<[ColumnTypes |-> inTypes]>>, Output |-> PassThrough, StageID |-> stage]

\* PhysicalPlan.AddNoGroupingStage: one processor after each result router, on
\* the router's node.
AddNoGroupingStage(p, core, post, outputTypes, newOrdering) ==
    LET n     == Len(p.Processors)
        k     == Len(p.ResultRouters)
        stage == p.stageCounter + 1
        procs == [i \in 1..k |->
                    Processor(p.Processors[p.ResultRouters[i]].Node, core, post,
                              p.ResultTypes, stage)]
        strs  == [i \in 1..k |->
                    [SourceProcessor |-> p.ResultRouters[i], SourceRouterSlot |-> 0,
                     DestProcessor |-> n + i, DestInput |-> 0]]
        q     == [p EXCEPT !.Processors = p.Processors \o procs,
                           !.Streams = p.Streams \o strs,
                           !.ResultRouters = [i \in 1..k |-> n + i],
                           !.ResultTypes = outputTypes,
                           !.stageCounter = stage]
    IN  SetMergeOrdering(q, newOrdering)

\* PhysicalPlan.AddSingleGroupStage: one processor on nodeID fed by all result
\* routers; it becomes the only result router.
AddSingleGroupStage(p, nodeID, core, post, outputTypes) ==
    LET n     == Len(p.Processors)
        stage == p.stageCounter + 1
        proc  == Processor(nodeID, core, post, p.ResultTypes, stage)
        q     == [p EXCEPT !.Processors = Append(p.Processors, proc),
                           !.stageCounter = stage]
        r     == MergeResultStreams(q, p.ResultRouters, 0, n + 1, 0)
    IN  [r EXCEPT !.ResultRouters = <<n + 1>>,
                  !.ResultTypes = outputTypes,
                  !.MergeOrdering = <<>>]

\* The position of column c in cols, or 0.
PosIn(cols, c) == IF \E i \in 1..Len(cols) : cols[i] = c
                  THEN CHOOSE i \in 1..Len(cols) : cols[i] = c /\ \A j \in 1..(i - 1) : cols[j] # c
                  ELSE 0

\* PhysicalPlan.AddProjection: the last stage outputs the listed columns; the
\* columns of the merge ordering are kept, appended if they are not listed.
\* The projection selects among the rendering or the projection that the last
\* stage already has.
RECURSIVE KeepOrderingCols(_, _, _)
KeepOrderingCols(cols, ord, i) ==
    IF i > Len(ord) THEN cols
    ELSE KeepOrderingCols(IF PosIn(cols, ord[i].ColIdx) = 0
                          THEN Append(cols, ord[i].ColIdx) ELSE cols, ord, i + 1)

AddProjection(p, columns) ==
    LET cols   == KeepOrderingCols(columns, p.MergeOrdering, 1)
        newOrd == [i \in 1..Len(p.MergeOrdering) |->
                     [ColIdx |-> PosIn(cols, p.MergeOrdering[i].ColIdx) - 1,
                      Direction |-> p.MergeOrdering[i].Direction]]
        types  == [i \in 1..Len(cols) |-> At(p.ResultTypes, cols[i])]
        newPost(post) ==
            IF Len(post.RenderExprs) > 0
            THEN [post EXCEPT !.RenderExprs = [i \in 1..Len(cols) |-> At(@, cols[i])]]
            ELSE IF post.Projection
            THEN Projection([i \in 1..Len(cols) |-> At(post.OutputColumns, cols[i])])
            ELSE Projection(cols)
        setPost(proc) == [proc EXCEPT !.Post = newPost(@)]
    IN  [p EXCEPT !.Processors = [i \in 1..Len(p.Processors) |->
                                     IF i \in Range(p.ResultRouters)
                                     THEN setPost(p.Processors[i]) ELSE p.Processors[i]],
                  !.ResultTypes = types,
                  !.MergeOrdering = newOrd]

\* The column types a processor emits: those of its core, after its
\* post-processing (rendering, or projection).
PostTypes(post, coreTypes) ==
    IF Len(post.RenderExprs) > 0
    THEN [i \in 1..Len(post.RenderExprs) |-> post.RenderExprs[i].typ]
    ELSE IF post.Projection
    THEN [i \in 1..Len(post.OutputColumns) |-> At(coreTypes, post.OutputColumns[i])]
    ELSE coreTypes

\* Processors that emit their input rows unchanged.
PassThroughCores == {"Noop", "Sorter", "Distinct"}

RECURSIVE OutTypes(_, _)
OutTypes(p, idx) ==
    LET proc == p.Processors[idx]
        feed == {i \in 1..Len(p.Streams) : p.Streams[i].DestProcessor = idx}
        src  == p.Streams[CHOOSE i \in feed : TRUE].SourceProcessor
        core == IF proc.Core.kind \in PassThroughCores
                THEN (IF feed = {} THEN <<>> ELSE OutTypes(p, src))
                ELSE proc.Core.out
    IN  PostTypes(proc.Post, core)


\* PhysicalPlan.SetLastStagePost / GetLastStagePost: the post-processing of the
\* result routers.
SetLastStagePost(p, post, outputTypes) ==
    [p EXCEPT !.Processors = [i \in 1..Len(p.Processors) |->
                                 IF i \in Range(p.ResultRouters)
                                 THEN [p.Processors[i] EXCEPT !.Post = post]
                                 ELSE p.Processors[i]],
              !.ResultTypes = outputTypes]

GetLastStagePost(p) == p.Processors[p.ResultRouters[1]].Post

\* The streams that leave processor idx, as a sequence of stream indices:
\* in the order of the streams for a pass-through router, by router slot
\* otherwise.
RECURSIVE StreamsFrom(_, _, _)
StreamsFrom(p, idx, i) ==
    IF i > Len(p.Streams) THEN <<>>
    ELSE (IF p.Streams[i].SourceProcessor = idx THEN <<i>> ELSE <<>>)
         \o StreamsFrom(p, idx, i + 1)

Endpoint(p, i) ==
    [Type |-> IF p.Processors[p.Streams[i].SourceProcessor].Node
                 = p.Processors[p.Streams[i].DestProcessor].Node
              THEN "LOCAL" ELSE "REMOTE",
     StreamID |-> i]

\* PhysicalPlan.PopulateEndpoints: every stream becomes an endpoint of its
\* source router, local when both processors are on the same node.
PopulateEndpoints(p) ==
    LET out(idx) ==
            LET from == StreamsFrom(p, idx, 1)
                slot(k) == CHOOSE j \in 1..Len(from) : p.Streams[from[j]].SourceRouterSlot = k
            IN  IF p.Processors[idx].Output.Type = "PASS_THROUGH"
                THEN [j \in 1..Len(from) |-> Endpoint(p, from[j])]
                ELSE [j \in 1..Len(from) |-> Endpoint(p, from[slot(j - 1)])]
    IN  [p EXCEPT !.Processors = [idx \in 1..Len(p.Processors) |->
            [p.Processors[idx] EXCEPT !.Output.Streams = @ \o out(idx)]]]

(***************************************************************************)
(* Translators.  A planNode is described by the types of its columns; a    *)
(* scanNode also by the columns it needs and by its ordering.              *)
(***************************************************************************)
\* The zero value of sqlbase.ColumnType.
ZeroColumnType == "BOOL"

identityMap(numCols) == [i \in 1..numCols |-> i - 1]

getOutputColumnsFromScanNode(n) ==
    LET RECURSIVE Needed(_)
        Needed(i) == IF i > Len(n.resultColumns) THEN <<>>
                     ELSE (IF n.valNeededForCol[i] THEN <<i - 1>> ELSE <<>>) \o Needed(i + 1)
    IN  Needed(1)

\* A conversion that takes every column for ascending.
convertOrdering_AllAscending(ordering, planToStreamColMap) ==
    [i \in 1..Len(ordering) |->
        [ColIdx |-> At(planToStreamColMap, ordering[i].ColIdx),
         Direction |-> "ASC"]]

\* convertOrdering, for orderings whose columns are in the stream.
convertOrdering(ordering, planToStreamColMap) ==
    [i \in 1..Len(ordering) |->
        [ColIdx |-> At(planToStreamColMap, ordering[i].ColIdx),
         Direction |-> ordering[i].Direction]]

getTypesForPlanResult(nodeColumns, planToStreamColMap) ==
    LET numCols == SetMax({0} \cup {planToStreamColMap[i] + 1 : i \in 1..Len(planToStreamColMap)})
    IN  [c \in 1..numCols |->
            IF \E i \in 1..Len(planToStreamColMap) : planToStreamColMap[i] = c - 1
            THEN nodeColumns[SetMax({i \in 1..Len(planToStreamColMap) : planToStreamColMap[i] = c - 1})]
            ELSE ZeroColumnType]

\* The map that sends plan column col to its position in outputColumns.
StreamColMap(numCols, outputColumns) ==
    [c \in 1..numCols |->
        SetMax({-1} \cup {i - 1 : i \in {j \in 1..Len(outputColumns) : outputColumns[j] = c - 1}})]

NoOverride == <<-1>>

\* Table readers that read only the first span of their partition.
createTableReaders_FirstSpan(n, spanPartitions, overrideResultColumns) ==
    LET tr(i) == [Node |-> spanPartitions[i].node,
                  Core |-> [kind |-> "TableReader", Spans |-> <<spanPartitions[i].spans[1]>>,
                            out |-> n.resultColumns],
                  Post |-> NoPost, Input |-> <<>>, Output |-> PassThrough, StageID |-> 1]
        p0 == [EmptyPlan EXCEPT !.Processors = [i \in 1..Len(spanPartitions) |-> tr(i)],
                                !.ResultRouters = [i \in 1..Len(spanPartitions) |-> i],
                                !.stageCounter = 1]
        planToStreamColMap == identityMap(Len(n.resultColumns))
        p1 == IF Len(p0.ResultRouters) > 1 /\ Len(n.ordering) > 0
              THEN SetMergeOrdering(p0, convertOrdering(n.ordering, planToStreamColMap))
              ELSE p0
        p2 == SetLastStagePost(p1, NoPost,
                               getTypesForPlanResult(n.resultColumns, planToStreamColMap))
        outCols == IF overrideResultColumns = NoOverride
                   THEN getOutputColumnsFromScanNode(n) ELSE overrideResultColumns
        p3 == AddProjection(p2, outCols)
        post == GetLastStagePost(p3)
    IN  [p3 EXCEPT !.planToStreamColMap = StreamColMap(Len(n.resultColumns), post.OutputColumns)]

createTableReaders(n, spanPartitions, overrideResultColumns) ==
    LET tr(i) == [Node |-> spanPartitions[i].node,
                  Core |-> [kind |-> "TableReader", Spans |-> spanPartitions[i].spans,
                            out |-> n.resultColumns],
                  Post |-> NoPost, Input |-> <<>>, Output |-> PassThrough, StageID |-> 1]
        p0 == [EmptyPlan EXCEPT !.Processors = [i \in 1..Len(spanPartitions) |-> tr(i)],
                                !.ResultRouters = [i \in 1..Len(spanPartitions) |-> i],
                                !.stageCounter = 1]
        planToStreamColMap == identityMap(Len(n.resultColumns))
        p1 == IF Len(p0.ResultRouters) > 1 /\ Len(n.ordering) > 0
              THEN SetMergeOrdering(p0, convertOrdering(n.ordering, planToStreamColMap))
              ELSE p0
        p2 == SetLastStagePost(p1, NoPost,
                               getTypesForPlanResult(n.resultColumns, planToStreamColMap))
        outCols == IF overrideResultColumns = NoOverride
                   THEN getOutputColumnsFromScanNode(n) ELSE overrideResultColumns
        p3 == AddProjection(p2, outCols)
        post == GetLastStagePost(p3)
    IN  [p3 EXCEPT !.planToStreamColMap = StreamColMap(Len(n.resultColumns), post.OutputColumns)]

\* The cluster settings sql.distsql.distribute_index_joins and
\* sql.distsql.merge_joins.enabled.
distributeIndexJoin_Always(st) == TRUE

distributeIndexJoin(st) == st.distribute_index_joins

planMergeJoins(st) == st.merge_joins

\* The primary key of the table is its first column.
PrimaryKeyColumns == <<0>>

createPlanForIndexJoin(n, spanPartitions, st) ==
    LET priCols == PrimaryKeyColumns
        plan0 == createTableReaders(n.index, spanPartitions, priCols)
        core == [kind |-> "JoinReader", out |-> n.table.resultColumns]
        post == Projection(getOutputColumnsFromScanNode(n.table))
        map == StreamColMap(Len(plan0.planToStreamColMap), post.OutputColumns)
        types == getTypesForPlanResult(n.table.resultColumns, map)
        node == IF Len(plan0.ResultRouters) = 1
                THEN plan0.Processors[plan0.ResultRouters[1]].Node
                ELSE Gateway
        plan1 == IF distributeIndexJoin(st) /\ Len(plan0.ResultRouters) > 1
                 THEN AddNoGroupingStage(plan0, core, post, types,
                                         convertOrdering(n.table.ordering, map))
                 ELSE AddSingleGroupStage(plan0, node, core, post, types)
    IN  [plan1 EXCEPT !.planToStreamColMap = map]

\* distsqlplan.MergePlans: the processors and streams of both plans; the
\* indices and stages of the right plan are shifted.
MergePlans(left, right) ==
    LET n == Len(left.Processors)
        shift(str) == [str EXCEPT !.SourceProcessor = @ + n, !.DestProcessor = @ + n]
    IN  [p |-> [EmptyPlan EXCEPT
                  !.Processors = left.Processors \o
                      [i \in 1..Len(right.Processors) |->
                          [right.Processors[i] EXCEPT !.StageID = @ + left.stageCounter]],
                  !.Streams = left.Streams \o [i \in 1..Len(right.Streams) |-> shift(right.Streams[i])],
                  !.stageCounter = left.stageCounter + right.stageCounter],
         leftRouters |-> left.ResultRouters,
         rightRouters |-> [i \in 1..Len(right.ResultRouters) |-> right.ResultRouters[i] + n]]

makePlanToStreamColMap(numCols) == [i \in 1..numCols |-> -1]

\* The nodes of the processors in routers, without repetition, in order of
\* first appearance.
NodesInOrder(p, routers) ==
    LET node(i) == p.Processors[routers[i]].Node
        first == {i \in 1..Len(routers) : \A j \in 1..(i - 1) : node(j) # node(i)}
    IN  [k \in 1..Cardinality(first) |->
            node(CHOOSE i \in first : Cardinality({j \in first : j < i}) = k - 1)]

JoinNodes_LeftOnly(p, leftRouters, rightRouters) == NodesInOrder(p, leftRouters)

JoinNodes(p, leftRouters, rightRouters) == NodesInOrder(p, leftRouters \o rightRouters)

\* Without equality columns: the node of the single joiner.
SingleJoinerNode_Gateway(p, leftRouters, rightRouters) == Gateway

SingleJoinerNode(p, leftRouters, rightRouters) ==
    IF Len(leftRouters) = 1 THEN p.Processors[leftRouters[1]].Node
    ELSE IF Len(rightRouters) = 1 THEN p.Processors[rightRouters[1]].Node
    ELSE Gateway

\* Merged columns for every join type.
MergedColNum_AnyJoinType(n) == n.numMergedEqualityColumns

\* The number of merged columns that the joiner outputs: none for an inner
\* join, where the left equality columns are used instead.
MergedColNum(n) == IF n.joinType = "INNER" THEN 0 ELSE n.numMergedEqualityColumns

UseMergeJoiner_AnyOrdering(st, n) ==
    /\ Len(n.leftEqualityIndices) # 0
    /\ planMergeJoins(st) /\ Len(n.mergeJoinOrdering) > 0 /\ n.joinType = "INNER"

UseMergeJoiner(st, n) ==
    /\ Len(n.leftEqualityIndices) # 0
    /\ planMergeJoins(st) /\ Len(n.mergeJoinOrdering) > 0 /\ n.joinType = "INNER"
    /\ Len(n.mergeJoinOrdering) = Len(n.leftEqualityIndices)

\* The output columns of the joiner and the map from the join's columns to
\* them: every column that is not omitted is appended to the output columns,
\* and mapped to the position it gets.
JoinOutCols(omitted, streamCols) ==
    LET map == [joinCol \in 1..Len(omitted) |->
                   IF omitted[joinCol] THEN makePlanToStreamColMap(Len(omitted))[joinCol]
                   ELSE Cardinality({c \in 1..(joinCol - 1) : ~omitted[c]})]
    IN  [OutputColumns |->
             [k \in 1..Cardinality({c \in 1..Len(omitted) : ~omitted[c]}) |->
                 streamCols[CHOOSE c \in 1..Len(omitted) : map[c] = k - 1]],
         map |-> map]

\* Bucket b of every left and right router feeds joiner b, on inputs 0 and 1.
RECURSIVE ConnectJoiners(_, _, _, _, _, _)
ConnectJoiners(q, leftRouters, rightRouters, pIdxStart, numBuckets, bucket) ==
    IF bucket >= numBuckets THEN q
    ELSE ConnectJoiners(
             MergeResultStreams(
                 MergeResultStreams(q, leftRouters, bucket, pIdxStart + bucket + 1, 0),
                 rightRouters, bucket, pIdxStart + bucket + 1, 1),
             leftRouters, rightRouters, pIdxStart, numBuckets, bucket + 1)

createPlanForJoin(leftPlan, rightPlan, n, st) ==
    LET merged == MergePlans(leftPlan, rightPlan)
        p == merged.p
        leftRouters == merged.leftRouters
        rightRouters == merged.rightRouters
        leftTypes == leftPlan.ResultTypes
        rightTypes == rightPlan.ResultTypes
        numEq == Len(n.leftEqualityIndices)
        nodes == IF numEq # 0 THEN JoinNodes(p, leftRouters, rightRouters)
                 ELSE <<SingleJoinerNode(p, leftRouters, rightRouters)>>
        leftEqCols == [i \in 1..numEq |-> At(leftPlan.planToStreamColMap, n.leftEqualityIndices[i])]
        rightEqCols == [i \in 1..numEq |-> At(rightPlan.planToStreamColMap, n.rightEqualityIndices[i])]
        useMerge == UseMergeJoiner(st, n)
        mergeOrd(eqCols) == IF useMerge
                            THEN [i \in 1..Len(n.mergeJoinOrdering) |->
                                    [ColIdx |-> At(eqCols, n.mergeJoinOrdering[i].ColIdx),
                                     Direction |-> n.mergeJoinOrdering[i].Direction]]
                            ELSE <<>>
        mergedColNum == MergedColNum(n)
        streamCols ==
            [i \in 1..n.numMergedEqualityColumns |->
                IF mergedColNum # 0 THEN i - 1 ELSE leftEqCols[i]] \o
            [i \in 1..n.numLeftCols |-> mergedColNum + leftPlan.planToStreamColMap[i]] \o
            [i \in 1..n.numRightCols |->
                mergedColNum + rightPlan.planToStreamColMap[i] + Len(leftTypes)]
        outCols == JoinOutCols([i \in 1..Len(n.columns) |-> n.columns[i].Omitted], streamCols)
        post == Projection(outCols.OutputColumns)
        mergedColumns == mergedColNum # 0
        out == [i \in 1..mergedColNum |-> leftTypes[leftEqCols[i] + 1]] \o leftTypes \o rightTypes
        core == IF ~useMerge
                THEN [kind |-> "HashJoiner", LeftEqColumns |-> leftEqCols,
                      RightEqColumns |-> rightEqCols, Type |-> n.joinType,
                      MergedColumns |-> mergedColumns, out |-> out]
                ELSE IF mergedColumns
                THEN [kind |-> "panic", msg |-> "merged columns not supported by merge join",
                      out |-> out]
                ELSE [kind |-> "MergeJoiner", LeftOrdering |-> mergeOrd(leftEqCols),
                      RightOrdering |-> mergeOrd(rightEqCols), Type |-> n.joinType, out |-> out]
        pIdxStart == Len(p.Processors)
        stageID == p.stageCounter + 1
        joiner(node) == [Node |-> node, Core |-> core, Post |-> post,
                         Input |-> <<[ColumnTypes |-> leftTypes], [ColumnTypes |-> rightTypes]>>,
                         Output |-> PassThrough, StageID |-> stageID]
        hashed(i) == IF Len(nodes) = 1 THEN p.Processors[i]
                     ELSE IF i \in Range(leftRouters)
                     THEN [p.Processors[i] EXCEPT !.Output = ByHash(leftEqCols)]
                     ELSE IF i \in Range(rightRouters)
                     THEN [p.Processors[i] EXCEPT !.Output = ByHash(rightEqCols)]
                     ELSE p.Processors[i]
        p1 == [p EXCEPT !.Processors = [i \in 1..Len(p.Processors) |-> hashed(i)] \o
                                       [b \in 1..Len(nodes) |-> joiner(nodes[b])],
                        !.stageCounter = stageID]
        p2 == [ConnectJoiners(p1, leftRouters, rightRouters, pIdxStart, Len(nodes), 0) EXCEPT
                  !.ResultRouters = [b \in 1..Len(nodes) |-> pIdxStart + b],
                  !.planToStreamColMap = outCols.map,
                  !.ResultTypes = getTypesForPlanResult(
                                      [i \in 1..Len(n.columns) |-> n.columns[i].Typ], outCols.map)]
    IN  SetMergeOrdering(p2, convertOrdering(n.ordering, p2.planToStreamColMap))


(***************************************************************************)
(* Aggregation.                                                            *)
(***************************************************************************)
\* distsqlrun.GetAggregateInfo: the type of an aggregate's result.
GetAggregateInfo(fn, argTypes) ==
    CASE fn \in {"COUNT", "SUM_INT"} -> "INT"
      [] fn \in {"SUM", "AVG"} -> IF argTypes[1] = "INT" THEN "DECIMAL" ELSE argTypes[1]
      [] OTHER -> argTypes[1]

\* distsqlplan.DistAggregationTable: the local and final stages of the
\* aggregates that can be computed in two stages, and whether the final
\* results need rendering.
DistAggregationTable ==
    [f \in {"IDENT", "COUNT", "SUM", "MIN", "MAX", "AVG"} |->
        CASE f \in {"IDENT", "MIN", "MAX"} ->
                            [LocalStage |-> <<f>>,
                             FinalStage |-> <<[Fn |-> f, LocalIdxs |-> <<0>>]>>,
                             FinalRendering |-> FALSE]
          [] f = "COUNT" -> [LocalStage |-> <<"COUNT">>,
                             FinalStage |-> <<[Fn |-> "SUM_INT", LocalIdxs |-> <<0>>]>>,
                             FinalRendering |-> FALSE]
          [] f = "SUM"   -> [LocalStage |-> <<"SUM">>,
                             FinalStage |-> <<[Fn |-> "SUM", LocalIdxs |-> <<0>>]>>,
                             FinalRendering |-> FALSE]
          [] f = "AVG"   -> [LocalStage |-> <<"SUM", "COUNT">>,
                             FinalStage |-> <<[Fn |-> "SUM", LocalIdxs |-> <<0>>],
                                              [Fn |-> "SUM_INT", LocalIdxs |-> <<1>>]>>,
                             FinalRendering |-> TRUE]]

\* An aggregation without a filter; FilterColIdx is <<>> or holds one column.
Aggregation(fn, distinct, colIdx) ==
    [Func |-> fn, Distinct |-> distinct, ColIdx |-> colIdx, FilterColIdx |-> <<>>]

\* AggregatorSpec_Aggregation.Equals: the same function, distinct flag, input
\* columns and filter column.
Equals(a, b) ==
    /\ a.Func = b.Func
    /\ a.Distinct = b.Distinct
    /\ a.FilterColIdx = b.FilterColIdx
    /\ a.ColIdx = b.ColIdx

\* The position of the first aggregation of aggs that equals agg, or 0.
FirstEqual(aggs, agg) ==
    IF \E i \in 1..Len(aggs) : Equals(aggs[i], agg)
    THEN CHOOSE i \in 1..Len(aggs) :
             Equals(aggs[i], agg) /\ \A j \in 1..(i - 1) : ~Equals(aggs[j], agg)
    ELSE 0

\* The types an aggregator emits: one column per aggregation.
AggregatorOut(aggs, inTypes) ==
    [i \in 1..Len(aggs) |->
        GetAggregateInfo(aggs[i].Func,
                         [k \in 1..Len(aggs[i].ColIdx) |-> At(inTypes, aggs[i].ColIdx[k])])]

AggregatorCore(aggs, groupCols, inTypes) ==
    [kind |-> "Aggregator", Aggregations |-> aggs, GroupCols |-> groupCols,
     out |-> AggregatorOut(aggs, inTypes)]

\* The elements of a set of numbers in increasing order.
RECURSIVE SortedSeq(_)
SortedSeq(S) == IF S = {} THEN <<>> ELSE <<SetMin(S)>> \o SortedSeq(S \ {SetMin(S)})

noRenderIdx == -1

\* The aggregations of a groupNode over the stream columns of the plan.
Aggregations(p, n) ==
    [i \in 1..Len(n.funcs) |->
        [Aggregation(n.funcs[i].Func, n.funcs[i].Distinct,
                     IF n.funcs[i].argRenderIdx # noRenderIdx
                     THEN <<At(p.planToStreamColMap, n.funcs[i].argRenderIdx)>> ELSE <<>>)
            EXCEPT !.FilterColIdx =
                       IF n.funcs[i].hasFilter
                       THEN <<At(p.planToStreamColMap, n.funcs[i].filterRenderIdx)>>
                       ELSE <<>>]]

\* The node that holds every result router, or 0 if they are on several nodes.
PrevStageNode(p) ==
    IF \A i \in 1..Len(p.ResultRouters) :
           p.Processors[p.ResultRouters[i]].Node = p.Processors[p.ResultRouters[1]].Node
    THEN p.Processors[p.ResultRouters[1]].Node ELSE 0

\* The loop that decides between one and two stages; it stops at the first
\* function that is not in the table.
RECURSIVE CheckLocalStage(_, _, _)
CheckLocalStage(aggregations, i, st) ==
    IF i > Len(aggregations) THEN st
    ELSE LET e == aggregations[i]
             st1 == IF e.Distinct
                    THEN [st EXCEPT !.multiStage = FALSE, !.anyDistinct = TRUE]
                    ELSE [st EXCEPT !.allDistinct = FALSE]
         IN  IF e.Func \notin DOMAIN DistAggregationTable
             THEN [st1 EXCEPT !.multiStage = FALSE]
             ELSE CheckLocalStage(aggregations, i + 1, st1)

StageChoice_IgnoreDistinct(p, aggregations) ==
    LET st == [multiStage |-> PrevStageNode(p) = 0
                              /\ \A i \in 1..Len(aggregations) :
                                     aggregations[i].Func \in DOMAIN DistAggregationTable,
               allDistinct |-> FALSE, anyDistinct |-> FALSE]
    IN  st

StageChoice(p, aggregations) ==
    LET st0 == [multiStage |-> FALSE, allDistinct |-> TRUE, anyDistinct |-> FALSE]
        st1 == IF PrevStageNode(p) = 0
               THEN CheckLocalStage(aggregations, 1, [st0 EXCEPT !.multiStage = TRUE])
               ELSE st0
    IN  IF ~st1.anyDistinct THEN [st1 EXCEPT !.allDistinct = FALSE] ELSE st1

\* A local stage whose aggregations drop the filter of e.
RECURSIVE LocalStage_NoFilter(_, _, _, _, _)
LocalStage_NoFilter(acc, e, inputTypes, i, rel) ==
    LET info == DistAggregationTable[e.Func]
    IN  IF i > Len(info.LocalStage) THEN [acc |-> acc, rel |-> rel]
        ELSE LET localAgg == Aggregation(info.LocalStage[i], FALSE, e.ColIdx)
                 j == FirstEqual(acc.localAggs, localAgg)
                 argTypes == [k \in 1..Len(e.ColIdx) |-> At(inputTypes, e.ColIdx[k])]
             IN  IF j # 0
                 THEN LocalStage_NoFilter(acc, e, inputTypes, i + 1, Append(rel, j - 1))
                 ELSE LocalStage_NoFilter(
                          [acc EXCEPT !.localAggs = Append(@, localAgg),
                                      !.intermediateTypes =
                                          Append(@, GetAggregateInfo(info.LocalStage[i], argTypes))],
                          e, inputTypes, i + 1, Append(rel, Len(acc.localAggs)))

\* The local stage of aggregation e: its local aggregations are appended to
\* localAggs unless an equal one is there; rel maps the local stages of e to
\* their positions in localAggs.
RECURSIVE LocalStage(_, _, _, _, _)
LocalStage(acc, e, inputTypes, i, rel) ==
    LET info == DistAggregationTable[e.Func]
    IN  IF i > Len(info.LocalStage) THEN [acc |-> acc, rel |-> rel]
        ELSE LET localAgg == [Aggregation(info.LocalStage[i], FALSE, e.ColIdx)
                                 EXCEPT !.FilterColIdx = e.FilterColIdx]
                 j == FirstEqual(acc.localAggs, localAgg)
                 argTypes == [k \in 1..Len(e.ColIdx) |-> At(inputTypes, e.ColIdx[k])]
             IN  IF j # 0
                 THEN LocalStage(acc, e, inputTypes, i + 1, Append(rel, j - 1))
                 ELSE LocalStage(
                          [acc EXCEPT !.localAggs = Append(@, localAgg),
                                      !.intermediateTypes =
                                          Append(@, GetAggregateInfo(info.LocalStage[i], argTypes))],
                          e, inputTypes, i + 1, Append(rel, Len(acc.localAggs)))

\* A final stage that takes the positions of the local stages for the
\* positions in localAggs.
RECURSIVE FinalStage_RelativeIdx(_, _, _, _, _)
FinalStage_RelativeIdx(acc, e, rel, needRender, i) ==
    LET info == DistAggregationTable[e.Func]
    IN  IF i > Len(info.FinalStage) THEN acc
        ELSE LET finalInfo == info.FinalStage[i]
                 argIdxs == finalInfo.LocalIdxs
                 finalAgg == Aggregation(finalInfo.Fn, FALSE, argIdxs)
                 j == FirstEqual(acc.finalAggs, finalAgg)
                 argTypes == [k \in 1..Len(argIdxs) |-> At(acc.intermediateTypes, argIdxs[k])]
             IN  IF j # 0
                 THEN FinalStage_RelativeIdx([acc EXCEPT !.finalIdxMap = Append(@, j - 1)],
                                             e, rel, needRender, i + 1)
                 ELSE FinalStage_RelativeIdx(
                          [acc EXCEPT !.finalIdxMap = Append(@, Len(acc.finalAggs)),
                                      !.finalAggs = Append(@, finalAgg),
                                      !.finalPreRenderTypes =
                                          IF needRender
                                          THEN Append(@, GetAggregateInfo(finalInfo.Fn, argTypes))
                                          ELSE @],
                          e, rel, needRender, i + 1)

\* The final stage of aggregation e: its final aggregations are appended to
\* finalAggs unless an equal one is there; finalIdxMap records where each is.
RECURSIVE FinalStage(_, _, _, _, _)
FinalStage(acc, e, rel, needRender, i) ==
    LET info == DistAggregationTable[e.Func]
    IN  IF i > Len(info.FinalStage) THEN acc
        ELSE LET finalInfo == info.FinalStage[i]
                 argIdxs == [k \in 1..Len(finalInfo.LocalIdxs) |-> At(rel, finalInfo.LocalIdxs[k])]
                 finalAgg == Aggregation(finalInfo.Fn, FALSE, argIdxs)
                 j == FirstEqual(acc.finalAggs, finalAgg)
                 argTypes == [k \in 1..Len(argIdxs) |-> At(acc.intermediateTypes, argIdxs[k])]
             IN  IF j # 0
                 THEN FinalStage([acc EXCEPT !.finalIdxMap = Append(@, j - 1)],
                                 e, rel, needRender, i + 1)
                 ELSE FinalStage(
                          [acc EXCEPT !.finalIdxMap = Append(@, Len(acc.finalAggs)),
                                      !.finalAggs = Append(@, finalAgg),
                                      !.finalPreRenderTypes =
                                          IF needRender
                                          THEN Append(@, GetAggregateInfo(finalInfo.Fn, argTypes))
                                          ELSE @],
                          e, rel, needRender, i + 1)

\* The loop over the aggregations; relToAbsLocalIdx keeps the map of each.
RECURSIVE LocalAndFinalAggs(_, _, _, _, _)
LocalAndFinalAggs(acc, aggregations, inputTypes, needRender, i) ==
    IF i > Len(aggregations) THEN acc
    ELSE LET l == LocalStage(acc, aggregations[i], inputTypes, 1, <<>>)
             f == FinalStage(l.acc, aggregations[i], l.rel, needRender, 1)
         IN  LocalAndFinalAggs([f EXCEPT !.relToAbsLocalIdx = Append(@, l.rel)],
                               aggregations, inputTypes, needRender, i + 1)

\* The IDENT aggregations that carry the group columns through the local stage.
RECURSIVE GroupColIdents(_, _, _, _)
GroupColIdents(acc, groupCols, inputTypes, i) ==
    IF i > Len(groupCols) THEN acc
    ELSE LET agg == Aggregation("IDENT", FALSE, <<groupCols[i]>>)
             j == FirstEqual(acc.localAggs, agg)
         IN  IF j # 0
             THEN GroupColIdents([acc EXCEPT !.finalGroupCols = Append(@, j - 1)],
                                 groupCols, inputTypes, i + 1)
             ELSE GroupColIdents(
                      [acc EXCEPT !.finalGroupCols = Append(@, Len(acc.localAggs)),
                                  !.localAggs = Append(@, agg),
                                  !.intermediateTypes = Append(@, At(inputTypes, groupCols[i]))],
                      groupCols, inputTypes, i + 1)

\* The expressions that render the results of the aggregations from the
\* results of the final aggregations: a result itself, or sum / count.
RECURSIVE RenderExprs(_, _, _, _)
RenderExprs(acc, aggregations, i, finalIdx) ==
    IF i > Len(aggregations) THEN <<>>
    ELSE LET info == DistAggregationTable[aggregations[i].Func]
             mappedIdxs == [j \in 1..Len(info.FinalStage) |-> At(acc.finalIdxMap, finalIdx + j - 1)]
             expr == IF ~info.FinalRendering
                     THEN [op |-> "var", args |-> <<mappedIdxs[1]>>,
                           typ |-> At(acc.finalPreRenderTypes, mappedIdxs[1])]
                     ELSE [op |-> "div", args |-> mappedIdxs,
                           typ |-> At(acc.finalPreRenderTypes, mappedIdxs[1])]
         IN  <<expr>> \o RenderExprs(acc, aggregations, i + 1, finalIdx + Len(info.FinalStage))


\* A final stage whose single aggregator is always on the gateway.
FinalAggStage_OnGateway(p, finalAggsSpec, finalAggsPost, finalOutTypes, prevStageNode) ==
    AddSingleGroupStage(p, Gateway, finalAggsSpec, finalAggsPost, finalOutTypes)

\* The final stage: one aggregator if there are no group columns or a
\* single stream, else one per result router, fed by hash of the group columns.
FinalAggStage(p, finalAggsSpec, finalAggsPost, finalOutTypes, prevStageNode) ==
    IF Len(finalAggsSpec.GroupCols) = 0 \/ Len(p.ResultRouters) = 1
    THEN AddSingleGroupStage(p, IF prevStageNode # 0 THEN prevStageNode ELSE Gateway,
                             finalAggsSpec, finalAggsPost, finalOutTypes)
    ELSE LET k == Len(p.ResultRouters)
             stageID == p.stageCounter + 1
             pIdxStart == Len(p.Processors)
             hashed(i) == IF i \in Range(p.ResultRouters)
                          THEN [p.Processors[i] EXCEPT !.Output = ByHash(finalAggsSpec.GroupCols)]
                          ELSE p.Processors[i]
             proc(r) == [Processor(p.Processors[r].Node, finalAggsSpec, finalAggsPost,
                                   p.ResultTypes, stageID) EXCEPT !.Output = PassThrough]
             p1 == [p EXCEPT !.Processors = [i \in 1..Len(p.Processors) |-> hashed(i)] \o
                                            [b \in 1..k |-> proc(p.ResultRouters[b])],
                             !.stageCounter = stageID]
             RECURSIVE Connect(_, _)
             Connect(q, bucket) ==
                 IF bucket >= k THEN q
                 ELSE Connect(MergeResultStreams(q, p.ResultRouters, bucket,
                                                 pIdxStart + bucket + 1, 0), bucket + 1)
             p2 == [Connect(p1, 0) EXCEPT !.ResultRouters = [b \in 1..k |-> pIdxStart + b],
                                          !.ResultTypes = finalOutTypes]
         IN  SetMergeOrdering(p2, orderingTerminated)

\* A local stage that passes on the merge ordering of the plan.
LocalAggStage_KeepOrdering(p, localAggsSpec, intermediateTypes) ==
    AddNoGroupingStage(p, localAggsSpec, NoPost, intermediateTypes, p.MergeOrdering)

\* The local aggregators, one on each result router; they guarantee no
\* output ordering.
LocalAggStage(p, localAggsSpec, intermediateTypes) ==
    AddNoGroupingStage(p, localAggsSpec, NoPost, intermediateTypes, orderingTerminated)

\* The local and final aggregations of the two-stage path of addAggregators.
StageAggs(p, n) ==
    LET aggregations == Aggregations(p, n)
        inputTypes == p.ResultTypes
        groupCols == [i \in 1..n.numGroupCols |-> p.planToStreamColMap[i]]
        needRender == \E i \in 1..Len(aggregations) :
                          DistAggregationTable[aggregations[i].Func].FinalRendering
        acc0 == [localAggs |-> <<>>, intermediateTypes |-> <<>>, finalAggs |-> <<>>,
                 finalIdxMap |-> <<>>, finalPreRenderTypes |-> <<>>, finalGroupCols |-> <<>>,
                 relToAbsLocalIdx |-> <<>>]
    IN  GroupColIdents(LocalAndFinalAggs(acc0, aggregations, inputTypes, needRender, 1),
                       groupCols, inputTypes, 1)

\* addAggregators: the plan after the local stage (the plan itself when
\* there is none) and the plan after the final stage.
AggStages(p, n) ==
    LET aggregations == Aggregations(p, n)
        inputTypes == p.ResultTypes
        groupCols == [i \in 1..n.numGroupCols |-> p.planToStreamColMap[i]]
        prevStageNode == PrevStageNode(p)
        choice == StageChoice(p, aggregations)
        multiStage == choice.multiStage
        \* Local distinct processing when every aggregation is distinct.
        ordering == convertOrdering(n.planOrdering, p.planToStreamColMap)
        distinctSpec ==
            [kind |-> "Distinct",
             OrderedColumns |-> SortedSeq({ordering[i].ColIdx : i \in 1..Len(ordering)}),
             DistinctColumns |-> SortedSeq(UNION {Range(aggregations[i].ColIdx) :
                                                     i \in 1..Len(aggregations)}),
             out |-> <<>>]
        p1 == IF ~multiStage /\ choice.allDistinct
              THEN AddNoGroupingStage(p, distinctSpec, NoPost, p.ResultTypes, p.MergeOrdering)
              ELSE p
        \* The local and final aggregations of the two-stage path.
        needRender == \E i \in 1..Len(aggregations) :
                          DistAggregationTable[aggregations[i].Func].FinalRendering
        acc == StageAggs(p, n)
        p2 == IF multiStage
              THEN LocalAggStage(p1, AggregatorCore(acc.localAggs, groupCols, inputTypes),
                                 acc.intermediateTypes)
              ELSE p1
        finalAggsSpec == IF multiStage
                         THEN AggregatorCore(acc.finalAggs, acc.finalGroupCols, p2.ResultTypes)
                         ELSE AggregatorCore(aggregations, groupCols, p2.ResultTypes)
        finalAggsPost == IF multiStage /\ needRender
                         THEN [NoPost EXCEPT !.RenderExprs = RenderExprs(acc, aggregations, 1, 0)]
                         ELSE NoPost
        planToStreamMapSet == multiStage /\ ~needRender /\ Len(acc.finalAggs) < Len(aggregations)
        finalOutTypes == AggregatorOut(aggregations, inputTypes)
        p3 == FinalAggStage(p2, finalAggsSpec, finalAggsPost, finalOutTypes, prevStageNode)
    IN  [multiStage |-> multiStage,
         local |-> p2,
         final |-> [p3 EXCEPT !.planToStreamColMap = IF planToStreamMapSet THEN acc.finalIdxMap
                                                     ELSE identityMap(Len(aggregations))]]

addAggregators(p, n) == AggStages(p, n).final


(***************************************************************************)
(* The execution of a plan over rows.  A value is a natural number or      *)
(* Null; a row is a sequence of values; a stream carries a sequence of     *)
(* rows.  Aggregators group by at most one column.                         *)
(***************************************************************************)
Null == -1

RECURSIVE SumOf(_)
SumOf(vals) == IF vals = <<>> THEN 0 ELSE Head(vals) + SumOf(Tail(vals))

NonNull(vals) == SelectSeq(vals, LAMBDA v : v # Null)

\* The quotient sum / count, to a fixed precision.
Quotient(sum, count) == IF sum = Null \/ count = Null \/ count = 0 THEN Null
                        ELSE (sum * AvgScale) \div count

\* The value of an aggregate function over the values of its argument.
AggValue(fn, vals) ==
    LET nn == NonNull(vals)
    IN  CASE fn = "COUNT" -> Len(nn)
          [] fn \in {"SUM", "SUM_INT"} -> IF nn = <<>> THEN Null ELSE SumOf(nn)
          [] fn = "MIN" -> IF nn = <<>> THEN Null ELSE SetMin(Range(nn))
          [] fn = "MAX" -> IF nn = <<>> THEN Null ELSE SetMax(Range(nn))
          [] fn = "AVG" -> IF nn = <<>> THEN Null ELSE Quotient(SumOf(nn), Len(nn))
          [] OTHER -> IF vals = <<>> THEN Null ELSE vals[1]

\* The rows an aggregator emits: one per group, or one row over all the
\* input when there are no group columns.
AggregatorRows(core, rows) ==
    LET keyOf(row) == IF core.GroupCols = <<>> THEN 0 ELSE At(row, core.GroupCols[1])
        keys == IF core.GroupCols = <<>> THEN <<0>>
                ELSE SortedSeq({keyOf(rows[i]) : i \in 1..Len(rows)})
        group(k) == SelectSeq(rows, LAMBDA row : keyOf(row) = k)
        out(k) == [i \in 1..Len(core.Aggregations) |->
                     LET agg == core.Aggregations[i]
                         g == group(k)
                     IN  AggValue(agg.Func, [j \in 1..Len(g) |-> At(g[j], agg.ColIdx[1])])]
    IN  [i \in 1..Len(keys) |-> out(keys[i])]

\* Post-processing of a row: rendering, or projection.
EvalExpr(expr, row) ==
    IF expr.op = "var" THEN At(row, expr.args[1])
    ELSE Quotient(At(row, expr.args[1]), At(row, expr.args[2]))

ApplyPost(post, row) ==
    IF Len(post.RenderExprs) > 0
    THEN [i \in 1..Len(post.RenderExprs) |-> EvalExpr(post.RenderExprs[i], row)]
    ELSE IF post.Projection
    THEN [i \in 1..Len(post.OutputColumns) |-> At(row, post.OutputColumns[i])]
    ELSE row

\* The bucket of a row in a router that hashes on the given columns.
Bucket(row, hashColumns, numBuckets) ==
    SumOf([i \in 1..Len(hashColumns) |-> At(row, hashColumns[i]) + 1]) % numBuckets

\* The rows that processor idx emits when table reader i reads data[i], and
\* the rows that flow on the streams into processor idx from stream i on.
RECURSIVE OutputRows(_, _, _)
RECURSIVE InputRows(_, _, _, _)
InputRows(p, idx, data, i) ==
    IF i > Len(p.Streams) THEN <<>>
    ELSE IF p.Streams[i].DestProcessor # idx THEN InputRows(p, idx, data, i + 1)
    ELSE LET src == p.Streams[i].SourceProcessor
             router == p.Processors[src].Output
             emitted == OutputRows(p, src, data)
             numBuckets == Len(StreamsFrom(p, src, 1))
             routed == IF router.Type = "BY_HASH"
                       THEN SelectSeq(emitted, LAMBDA row :
                                Bucket(row, router.HashColumns, numBuckets)
                                    = p.Streams[i].SourceRouterSlot)
                       ELSE emitted
         IN  routed \o InputRows(p, idx, data, i + 1)

OutputRows(p, idx, data) ==
    LET proc == p.Processors[idx]
        rows == CASE proc.Core.kind = "TableReader" -> data[idx]
                  [] proc.Core.kind = "Aggregator" ->
                         AggregatorRows(proc.Core, InputRows(p, idx, data, 1))
                  [] OTHER -> InputRows(p, idx, data, 1)
    IN  [i \in 1..Len(rows) |-> ApplyPost(proc.Post, rows[i])]

\* The rows of all result routers, as columns of the planNode.
RECURSIVE ResultRows(_, _, _)
ResultRows(p, data, i) ==
    IF i > Len(p.ResultRouters) THEN <<>>
    ELSE LET rows == OutputRows(p, p.ResultRouters[i], data)
         IN  [j \in 1..Len(rows) |->
                 [c \in 1..Len(p.planToStreamColMap) |-> At(rows[j], p.planToStreamColMap[c])]]
             \o ResultRows(p, data, i + 1)

BagOf(rows) == [row \in Range(rows) |-> Cardinality({i \in 1..Len(rows) : rows[i] = row})]


NoopCore == [kind |-> "Noop", out |-> <<>>]

FinalizePlan_SingleRouter(p) ==
    LET q == IF Len(p.ResultRouters) # 1
             THEN AddSingleGroupStage(p, Gateway, NoopCore, NoPost, p.ResultTypes)
             ELSE p
        r == PopulateEndpoints(q)
    IN  [r EXCEPT !.Processors[r.ResultRouters[1]].Output.Streams =
                      Append(@, [Type |-> "SYNC_RESPONSE", StreamID |-> 0])]

FinalizePlan(p) ==
    LET q == IF \/ Len(p.ResultRouters) # 1
                \/ p.Processors[p.ResultRouters[1]].Node # Gateway
             THEN AddSingleGroupStage(p, Gateway, NoopCore, NoPost, p.ResultTypes)
             ELSE p
        r == PopulateEndpoints(q)
    IN  [r EXCEPT !.Processors[r.ResultRouters[1]].Output.Streams =
                      Append(@, [Type |-> "SYNC_RESPONSE", StreamID |-> 0])]

(***************************************************************************)
(* Render, sort and values.  An expression of a renderNode is a reference  *)
(* to a column of its source (op "var") or a computation over columns of   *)
(* the source; cols are the columns it reads.                              *)
(***************************************************************************)
\* exprColumn: the stream column an expression refers to, or -1 when the
\* expression is not a plain column reference.
exprColumn(e, indexVarMap) == IF e.op = "var" THEN At(indexVarMap, e.cols[1]) ELSE -1

\* MakeExpression: the expression over the columns that indexVarMap gives.
MakeExpression(e, indexVarMap) ==
    [op |-> e.op, args |-> [j \in 1..Len(e.cols) |-> At(indexVarMap, e.cols[j])], typ |-> e.typ]

\* The renderings and the merge ordering once the columns of the merge
\* ordering that are not rendered are added to the renderings.
RECURSIVE RenderOrdering(_, _, _, _, _, _)
RenderOrdering(p, post, exprs, indexVarMap, acc, i) ==
    IF i > Len(p.MergeOrdering) THEN acc
    ELSE LET c == p.MergeOrdering[i]
             rendered == {k \in 1..Len(exprs) : exprColumn(exprs[k], indexVarMap) = c.ColIdx}
             internal == IF post.Projection THEN At(post.OutputColumns, c.ColIdx) ELSE c.ColIdx
             added == [op |-> "var", args |-> <<internal>>, typ |-> At(p.ResultTypes, c.ColIdx)]
         IN  IF rendered # {}
             THEN RenderOrdering(p, post, exprs, indexVarMap,
                      [acc EXCEPT !.ordering = Append(@, [ColIdx |-> SetMin(rendered) - 1,
                                                          Direction |-> c.Direction])], i + 1)
             ELSE RenderOrdering(p, post, exprs, indexVarMap,
                      [renders |-> Append(acc.renders, added),
                       types |-> Append(acc.types, At(p.ResultTypes, c.ColIdx)),
                       ordering |-> Append(acc.ordering, [ColIdx |-> Len(acc.renders),
                                                          Direction |-> c.Direction])], i + 1)

\* PhysicalPlan.AddRendering: a projection when every expression is a column
\* reference (nothing when they are the columns as they are); otherwise the
\* last stage renders the expressions, after a Noop stage when the last stage
\* renders already.
AddRendering(p, exprs, indexVarMap, outTypes) ==
    LET needRendering == \E i \in 1..Len(exprs) : exprColumn(exprs[i], indexVarMap) = -1
        identity == /\ Len(exprs) = Len(p.ResultTypes)
                    /\ \A i \in 1..Len(exprs) : exprColumn(exprs[i], indexVarMap) = i - 1
        post0 == GetLastStagePost(p)
        staged == Len(post0.RenderExprs) > 0
        p1 == IF staged
              THEN AddNoGroupingStage(p, NoopCore, NoPost, p.ResultTypes, p.MergeOrdering)
              ELSE p
        post == IF staged THEN NoPost ELSE post0
        compositeMap == IF post.Projection
                        THEN [c \in 1..Len(indexVarMap) |->
                                 IF indexVarMap[c] = -1 THEN -1
                                 ELSE At(post.OutputColumns, indexVarMap[c])]
                        ELSE indexVarMap
        acc == RenderOrdering(p1, post, exprs, indexVarMap,
                   [renders |-> [i \in 1..Len(exprs) |-> MakeExpression(exprs[i], compositeMap)],
                    types |-> outTypes, ordering |-> <<>>], 1)
        newPost == [Projection |-> FALSE, OutputColumns |-> <<>>, RenderExprs |-> acc.renders]
    IN  IF ~needRendering
        THEN (IF identity THEN p
              ELSE AddProjection(p, [i \in 1..Len(exprs) |-> exprColumn(exprs[i], indexVarMap)]))
        ELSE [SetLastStagePost(p1, newPost, acc.types) EXCEPT !.MergeOrdering = acc.ordering]

\* A rendering that leaves the plan's column map as it was.
selectRenders_KeepMap(p, n) ==
    AddRendering(p, n.render, p.planToStreamColMap,
                 [i \in 1..Len(n.render) |-> n.render[i].typ])

\* selectRenders: the plan produces the columns of the renderNode, in the
\* order of n.render.
selectRenders(p, n) ==
    [AddRendering(p, n.render, p.planToStreamColMap,
                  [i \in 1..Len(n.render) |-> n.render[i].typ])
        EXCEPT !.planToStreamColMap = identityMap(Len(n.render))]

\* An addSorters that adds the sorters also when the plan is ordered already.
addSorters_AlwaysSort(p, n, matchLen) ==
    LET ordering == [i \in 1..Len(n.ordering) |->
                        [ColIdx |-> At(p.planToStreamColMap, n.ordering[i].ColIdx),
                         Direction |-> n.ordering[i].Direction]]
        sorter == [kind |-> "Sorter", OutputOrdering |-> ordering,
                   OrderingMatchLen |-> matchLen, out |-> <<>>]
        p1 == AddNoGroupingStage(p, sorter, NoPost, p.ResultTypes, ordering)
        columns == [i \in 1..n.numColumns |-> p.planToStreamColMap[i]]
    IN  IF n.numColumns # Len(p.planToStreamColMap)
        THEN [AddProjection(p1, columns) EXCEPT !.planToStreamColMap = identityMap(n.numColumns)]
        ELSE p1

\* addSorters: a stage of sorters unless the plan is ordered already
\* (matchLen, from the physical properties of the source), and a projection
\* when the sortNode has fewer columns than its source.
addSorters(p, n, matchLen) ==
    LET ordering == [i \in 1..Len(n.ordering) |->
                        [ColIdx |-> At(p.planToStreamColMap, n.ordering[i].ColIdx),
                         Direction |-> n.ordering[i].Direction]]
        sorter == [kind |-> "Sorter", OutputOrdering |-> ordering,
                   OrderingMatchLen |-> matchLen, out |-> <<>>]
        p1 == IF matchLen < Len(n.ordering)
              THEN AddNoGroupingStage(p, sorter, NoPost, p.ResultTypes, ordering)
              ELSE p
        columns == [i \in 1..n.numColumns |-> p.planToStreamColMap[i]]
    IN  IF n.numColumns # Len(p.planToStreamColMap)
        THEN [AddProjection(p1, columns) EXCEPT !.planToStreamColMap = identityMap(n.numColumns)]
        ELSE p1

\* createPlanForValues: one Values processor on the gateway.
createPlanForValues(n) ==
    LET proc == [Node |-> Gateway, Core |-> [kind |-> "Values", out |-> n.columns],
                 Post |-> NoPost, Input |-> <<>>, Output |-> PassThrough, StageID |-> 0]
    IN  [EmptyPlan EXCEPT !.Processors = <<proc>>,
                          !.ResultRouters = <<1>>,
                          !.ResultTypes = n.columns,
                          !.planToStreamColMap = identityMap(Len(n.columns))]

(***************************************************************************)
(* The inputs of the translators.                                          *)
(***************************************************************************)
\* The columns of the scanned table.
TableColumns == <<"INT", "STRING", "DECIMAL">>
\* The needed-column vectors of a scan.
NeededVectors == {<<TRUE, TRUE, FALSE>>, <<FALSE, TRUE, TRUE>>}
Asc(c) == <<[ColIdx |-> c, Direction |-> "ASC"]>>

\* The scans: some columns needed, unordered or ordered by the first of them.
ScanNodes ==
    {[resultColumns |-> TableColumns, valNeededForCol |-> v, ordering |-> o] :
        v \in NeededVectors, o \in {<<>>}} \cup
    {[resultColumns |-> TableColumns, valNeededForCol |-> v,
      ordering |-> Asc(CHOOSE c \in 0..2 : v[c + 1] /\ \A d \in 0..(c - 1) : ~v[d + 1])] :
        v \in NeededVectors}

\* Scans with any columns needed (one at least) and any ordering of up to two
\* columns of the table, needed or not.
ScanOrderings ==
    {<<>>} \cup {<<[ColIdx |-> c, Direction |-> d]>> : c \in 0..2, d \in {"ASC", "DESC"}}
           \cup {<<[ColIdx |-> 1, Direction |-> "DESC"], [ColIdx |-> 0, Direction |-> "ASC"]>>}

OrderedScanNodes ==
    {[resultColumns |-> TableColumns, valNeededForCol |-> v, ordering |-> o] :
        v \in [1..3 -> BOOLEAN] \ {<<FALSE, FALSE, FALSE>>}, o \in ScanOrderings}

\* The index joins: the index is ordered by the second column or unordered.
IndexJoinNodes ==
    {[index |-> [resultColumns |-> TableColumns, valNeededForCol |-> <<FALSE, FALSE, FALSE>>,
                 ordering |-> o],
      table |-> [resultColumns |-> TableColumns, valNeededForCol |-> v, ordering |-> o]] :
        v \in NeededVectors, o \in {<<>>, Asc(1)}}

\* The columns of a plan that are in its stream.
Materialized(map) == SelectSeq([i \in 1..Len(map) |-> i - 1], LAMBDA c : At(map, c) # -1)

VarExpr(columns, c) == [op |-> "var", cols |-> <<c>>, typ |-> At(columns, c)]
PlusExpr(columns, c, d) == [op |-> "plus", cols |-> <<c, d>>, typ |-> At(columns, c)]

\* The renderNodes over a plan: the columns of its stream as they are, one
\* of them, a computation and a column, or a computation alone.
RenderNodes(columns, map) ==
    LET m == Materialized(map)
        a == m[1]
        b == m[Len(m)]
    IN  {[render |-> r] : r \in {[i \in 1..Len(m) |-> VarExpr(columns, m[i])],
                                 <<VarExpr(columns, b)>>,
                                 <<PlusExpr(columns, a, b), VarExpr(columns, b)>>,
                                 <<PlusExpr(columns, a, b)>>}}

Descending(c) == <<[ColIdx |-> c, Direction |-> "DESC"]>>

\* The sortNodes over a plan: ordered by the last of the plan's columns that
\* is in the stream, or by it and then by the first, with every column of the plan or without the last one
\* (a column that is there for the sort only).
SortNodes(map) ==
    LET m == Materialized(map)
        k == Len(map)
    IN  {[ordering |-> o, numColumns |-> c] :
            o \in {Asc(m[Len(m)]), Descending(m[Len(m)]),
                   Descending(m[Len(m)]) \o Asc(m[1])},
            c \in {k} \cup (IF k >= 2 /\ \A i \in 1..(k - 1) : map[i] # -1
                             THEN {k - 1} ELSE {})}

\* The valuesNodes: one or two columns.
ValuesNodes == {[columns |-> <<"INT">>], [columns |-> <<"INT", "STRING">>]}

\* The right side of a join: a scan that needs every column.
RightScan == [resultColumns |-> TableColumns, valNeededForCol |-> <<TRUE, TRUE, TRUE>>,
              ordering |-> <<>>]

JoinTypes == {"INNER", "LEFT_OUTER"}

\* The equality columns of a join: none, the second column, or the second
\* column and another column that the left side outputs.
EqualityIndices(leftMap) ==
    {<<>>, <<1>>} \cup {<<1, c>> : c \in {d \in {0, 2} : At(leftMap, d) # -1}}

\* The merge-join orderings offered for numEq equality columns.
MergeJoinOrderings(numEq) ==
    {<<>>} \cup (IF numEq >= 1 THEN {Asc(0)} ELSE {})
           \cup (IF numEq >= 2 THEN {<<[ColIdx |-> 1, Direction |-> "DESC"],
                                       [ColIdx |-> 0, Direction |-> "ASC"]>>} ELSE {})

\* The joinNode over two plans: its columns are the merged equality columns,
\* the left columns and the right columns; a column that a side does not
\* output is omitted.
JoinNode(leftColumns, leftMap, rightColumns, rightMap, joinType, eq, ord, numMerged, ordering) ==
    [joinType |-> joinType,
     leftEqualityIndices |-> eq, rightEqualityIndices |-> eq,
     mergeJoinOrdering |-> ord,
     numMergedEqualityColumns |-> numMerged,
     numLeftCols |-> Len(leftColumns), numRightCols |-> Len(rightColumns),
     columns |-> [i \in 1..numMerged |-> [Typ |-> At(leftColumns, eq[i]), Omitted |-> FALSE]] \o
                 [i \in 1..Len(leftColumns) |->
                     [Typ |-> leftColumns[i], Omitted |-> leftMap[i] = -1]] \o
                 [i \in 1..Len(rightColumns) |->
                     [Typ |-> rightColumns[i], Omitted |-> rightMap[i] = -1]],
     ordering |-> ordering]

\* The orderings of a joinNode (n.props.ordering): none, or, for a join with
\* a merge-join ordering, that ordering on the left equality columns.
JoinOrderings(eq, ord, numMerged) ==
    {<<>>} \cup (IF ord = <<>> THEN {}
                ELSE {[i \in 1..Len(ord) |->
                         [ColIdx |-> numMerged + At(eq, ord[i].ColIdx),
                          Direction |-> ord[i].Direction]]})

\* The aggregates of a groupNode: functions of the table's numeric column
\* that the scan outputs, CONCAT_AGG of its string column, and the group
\* column itself.
NumericColumn(map) == IF At(map, 0) # -1 THEN 0 ELSE 2

\* An aggregateFuncHolder without a FILTER clause.
Unfiltered(f, distinct, argRenderIdx) ==
    [Func |-> f, Distinct |-> distinct, argRenderIdx |-> argRenderIdx,
     hasFilter |-> FALSE, filterRenderIdx |-> noRenderIdx]

AggregateFuncs(map, numGroupCols) ==
    {Unfiltered(f, d, NumericColumn(map)) : f \in {"COUNT", "SUM"}, d \in BOOLEAN} \cup
    {Unfiltered("AVG", FALSE, NumericColumn(map)),
     Unfiltered("CONCAT_AGG", FALSE, 1),
     Unfiltered("CONCAT_AGG", TRUE, 1)} \cup
    {[Unfiltered(f, FALSE, NumericColumn(map))
         EXCEPT !.hasFilter = TRUE, !.filterRenderIdx = NumericColumn(map)] :
        f \in {"SUM", "AVG"}} \cup
    (IF numGroupCols > 0 THEN {Unfiltered("IDENT", FALSE, 0)} ELSE {})

RECURSIVE FuncSeqs(_, _)
FuncSeqs(S, n) ==
    IF n = 0 THEN {<<>>}
    ELSE LET shorter == FuncSeqs(S, n - 1)
         IN  shorter \cup {Append(q, x) : q \in {r \in shorter : Len(r) = n - 1}, x \in S}

\* The groupNodes over a plan: up to MaxAggs aggregates, grouped by the
\* first column if the plan outputs it.
GroupNodes(map, planOrdering) ==
    UNION {{[funcs |-> fs, numGroupCols |-> g, planOrdering |-> planOrdering] :
               fs \in FuncSeqs(AggregateFuncs(map, g), MaxAggs) \ {<<>>}} :
           g \in {0} \cup (IF At(map, 0) # -1 THEN {1} ELSE {})}

\* The table whose rows are aggregated: a group column and a value column.
EvalScanNode == [resultColumns |-> <<"INT", "INT">>, valNeededForCol |-> <<TRUE, TRUE>>,
                 ordering |-> <<>>]

\* Its spans are spread over the first MaxParts nodes.
EvalPartitions == [i \in 1..MaxParts |-> i]

EvalFuncs(numGroupCols) ==
    {Unfiltered(f, FALSE, 1) : f \in {"COUNT", "SUM", "AVG"}} \cup
    (IF numGroupCols > 0 THEN {Unfiltered("IDENT", FALSE, 0)} ELSE {})

EvalGroupNodes ==
    UNION {{[funcs |-> fs, numGroupCols |-> g, planOrdering |-> <<>>] :
               fs \in FuncSeqs(EvalFuncs(g), MaxAggs) \ {<<>>}} : g \in {0, 1}}

\* The rows of the table, and the row sequences a table reader can read (in
\* one order each).
Rows == {<<g, v>> : g \in 1..MaxValue, v \in {Null} \cup 1..MaxValue}
Rank(row) == row[1] * (MaxValue + 2) + row[2]
RowSeqs == {q \in FuncSeqs(Rows, MaxRows) : \A i \in 1..(Len(q) - 1) : Rank(q[i]) <= Rank(q[i + 1])}

\* The results of partitionSpans: distinct nodes, in any order.
RECURSIVE NodeSeqs(_)
NodeSeqs(n) ==
    IF n = 0 THEN {<<>>}
    ELSE LET shorter == NodeSeqs(n - 1)
         IN  shorter \cup {Append(q, x) : q \in {r \in shorter : Len(r) = n - 1}, x \in PlanNodes}

\* The partitions on a sequence of nodes, each with one span.
NodePartitions(q) == [i \in 1..Len(q) |-> [node |-> q[i], spans |-> <<SpanOf(i - 1, i)>>]]

SpanPartitions == {q \in NodeSeqs(MaxParts) :
                     /\ Len(q) > 0
                     /\ \A i, j \in 1..Len(q) : i # j => q[i] # q[j]}

NoLast == [op |-> "none"]

PlanIdle ==
    /\ settings = [distribute_index_joins |-> TRUE, merge_joins |-> TRUE]
    /\ plan = EmptyPlan
    /\ last = NoLast
    /\ phase = "start"

(***************************************************************************)
(* The support predicate (CheckSupport).  A planNode is a record with its  *)
(* kind and the fields checkSupportForNode reads; an expression is a       *)
(* constant, a subquery or a function call over expressions.               *)
(***************************************************************************)
shouldNotDistribute == 0
canDistribute == 1
shouldDistribute == 2

\* A composition in which shouldDistribute dominates.
compose_PreferFirst(a, b) ==
    IF a = shouldDistribute \/ b = shouldDistribute THEN shouldDistribute
    ELSE IF a = shouldNotDistribute \/ b = shouldNotDistribute THEN shouldNotDistribute
    ELSE canDistribute

compose(a, b) ==
    IF a = shouldNotDistribute \/ b = shouldNotDistribute THEN shouldNotDistribute
    ELSE IF a = shouldDistribute \/ b = shouldDistribute THEN shouldDistribute
    ELSE canDistribute

\* The messages of the queryNotSupportedErrors; NoErr is the nil error.
NoErr == "nil"
QueryNotSupportedErrors ==
    {"subqueries not supported yet", "function cannot be executed with distsql",
     "unsupported render type", "ARRAY_AGG aggregation not supported yet",
     "unsupported node without SQL VALUES clause", "mutations not supported",
     "SET / SET CLUSTER SETTING should never distribute", "unsupported node"}
mutationsNotSupportedError == "mutations not supported"
setNotSupportedError == "SET / SET CLUSTER SETTING should never distribute"

NilExpr == [kind |-> "nil"]
ConstExpr == [kind |-> "const"]
SubqueryExpr == [kind |-> "subquery"]
FuncExpr(blacklist, args) == [kind |-> "func", blacklist |-> blacklist, args |-> args]

\* The first error of a sequence of errors, or NoErr.
FirstErr(errs) ==
    IF \E i \in 1..Len(errs) : errs[i] # NoErr
    THEN errs[CHOOSE i \in 1..Len(errs) : errs[i] # NoErr /\ \A j \in 1..(i - 1) : errs[j] = NoErr]
    ELSE NoErr

\* distSQLExprCheckVisitor.VisitPre over the walk of an expression: the error
\* of the first unsupported expression in pre-order.
RECURSIVE VisitPre(_)
VisitPre(expr) ==
    CASE expr.kind = "subquery" -> "subqueries not supported yet"
      [] expr.kind = "func" ->
            IF expr.blacklist THEN "function cannot be executed with distsql"
            ELSE FirstErr([i \in 1..Len(expr.args) |-> VisitPre(expr.args[i])])
      [] OTHER -> NoErr

\* A check that looks at the expression itself and not inside it.
checkExpr_TopLevel(expr) ==
    CASE expr.kind = "subquery" -> "subqueries not supported yet"
      [] expr.kind = "func" /\ expr.blacklist -> "function cannot be executed with distsql"
      [] OTHER -> NoErr

checkExpr(expr) == IF expr = NilExpr THEN NoErr ELSE VisitPre(expr)

\* Types: a family, and the element type of an array.
IntType == [family |-> "INT"]
TupleType == [family |-> "TUPLE"]
ArrayOf(t) == [family |-> "ARRAY", Typ |-> t]

RECURSIVE leafType(_)
leafType(t) == IF t.family = "ARRAY" THEN leafType(t.Typ) ELSE t

\* strings.ToUpper on the names of the aggregate functions of the model.
ToUpper(name) ==
    CASE name = "array_agg" -> "ARRAY_AGG"
      [] name = "Array_Agg" -> "ARRAY_AGG"
      [] name = "sum" -> "SUM"
      [] OTHER -> name

Recommendation(rec) == [rec |-> rec, err |-> NoErr]
Unsupported(err) == [rec |-> 0, err |-> err]

\* The error of the first column of a renderNode that is not supported: a
\* tuple type, or an expression that is not supported.
RenderErr(n) ==
    FirstErr([i \in 1..Len(n.render) |->
                 IF leafType(n.columns[i]).family = "TUPLE" THEN "unsupported render type"
                 ELSE checkExpr(n.render[i])])

RECURSIVE checkSupportForNode(_)
checkSupportForNode(n) ==
    CASE n.kind = "filterNode" ->
            IF checkExpr(n.filter) # NoErr THEN Unsupported(checkExpr(n.filter))
            ELSE checkSupportForNode(n.source)
      [] n.kind = "renderNode" ->
            IF RenderErr(n) # NoErr THEN Unsupported(RenderErr(n))
            ELSE checkSupportForNode(n.source)
      [] n.kind = "sortNode" ->
            LET r == checkSupportForNode(n.plan)
            IN  IF r.err # NoErr THEN Unsupported(r.err)
                ELSE IF n.needSort THEN Recommendation(compose(r.rec, shouldDistribute))
                ELSE r
      [] n.kind = "joinNode" ->
            LET recLeft == checkSupportForNode(n.left)
                recRight == checkSupportForNode(n.right)
                rec == compose(recLeft.rec, recRight.rec)
            IN  IF checkExpr(n.onCond) # NoErr THEN Unsupported(checkExpr(n.onCond))
                ELSE IF recLeft.err # NoErr THEN Unsupported(recLeft.err)
                ELSE IF recRight.err # NoErr THEN Unsupported(recRight.err)
                ELSE IF n.numEqualityIndices > 0
                THEN Recommendation(compose(rec, shouldDistribute))
                ELSE Recommendation(rec)
      [] n.kind = "scanNode" ->
            LET rec0 == IF n.hardLimit # 0 \/ n.softLimit # 0
                        THEN shouldNotDistribute ELSE canDistribute
                rec1 == IF n.filter # NilExpr THEN compose(rec0, shouldDistribute) ELSE rec0
                rec2 == IF n.fullScan THEN compose(rec1, shouldDistribute) ELSE rec1
            IN  IF n.filter # NilExpr /\ checkExpr(n.filter) # NoErr
                THEN Unsupported(checkExpr(n.filter))
                ELSE Recommendation(rec2)
      [] n.kind = "indexJoinNode" ->
            IF checkSupportForNode(n.table).err # NoErr
            THEN Unsupported(checkSupportForNode(n.table).err)
            ELSE checkSupportForNode(n.index)
      [] n.kind = "groupNode" ->
            LET r == checkSupportForNode(n.plan)
            IN  IF \E i \in 1..Len(n.funcs) : ToUpper(n.funcs[i]) = "ARRAY_AGG"
                THEN Unsupported("ARRAY_AGG aggregation not supported yet")
                ELSE IF r.err # NoErr THEN Unsupported(r.err)
                ELSE Recommendation(compose(r.rec, shouldDistribute))
      [] n.kind = "limitNode" ->
            IF checkExpr(n.countExpr) # NoErr THEN Unsupported(checkExpr(n.countExpr))
            ELSE IF checkExpr(n.offsetExpr) # NoErr THEN Unsupported(checkExpr(n.offsetExpr))
            ELSE checkSupportForNode(n.plan)
      [] n.kind = "distinctNode" -> checkSupportForNode(n.plan)
      [] n.kind = "valuesNode" ->
            LET errs == [i \in 1..Len(n.tuples) |->
                            FirstErr([j \in 1..Len(n.tuples[i]) |-> checkExpr(n.tuples[i][j])])]
            IN  IF ~n.hasValuesClause
                THEN Unsupported("unsupported node without SQL VALUES clause")
                ELSE IF FirstErr(errs) # NoErr THEN Unsupported(FirstErr(errs))
                ELSE Recommendation(shouldDistribute)
      [] n.kind \in {"insertNode", "updateNode", "deleteNode"} ->
            Unsupported(mutationsNotSupportedError)
      [] n.kind \in {"setNode", "setClusterSettingNode"} ->
            Unsupported(setNotSupportedError)
      [] OTHER -> Unsupported("unsupported node")

\* CheckSupport: whether to distribute, and the error.
CheckSupportResult(n) ==
    LET r == checkSupportForNode(n)
    IN  IF r.err # NoErr THEN [distribute |-> FALSE, rec |-> r.rec, err |-> r.err]
        ELSE [distribute |-> r.rec = shouldDistribute, rec |-> r.rec, err |-> NoErr]

\* The depth of the trees handed to CheckSupport.
MaxDepth == 3

ScanNode(hardLimit, softLimit, filter, fullScan) ==
    [kind |-> "scanNode", hardLimit |-> hardLimit, softLimit |-> softLimit,
     filter |-> filter, fullScan |-> fullScan]

PlainScan == ScanNode(0, 0, NilExpr, FALSE)

Limits == {<<0, 0>>, <<1, 0>>, <<0, 1>>}

SupportScans ==
    {ScanNode(l[1], l[2], f[1], f[2]) :
        l \in Limits,
        f \in {<<NilExpr, FALSE>>, <<NilExpr, TRUE>>, <<ConstExpr, FALSE>>}} \cup
    {ScanNode(0, 0, FuncExpr(FALSE, <<FuncExpr(TRUE, <<ConstExpr>>)>>), FALSE)}

SupportIndexJoins ==
    {[kind |-> "indexJoinNode", table |-> t, index |-> i] :
        t \in {PlainScan, ScanNode(1, 0, NilExpr, FALSE), ScanNode(0, 0, SubqueryExpr, FALSE)},
        i \in {ScanNode(0, 1, NilExpr, FALSE), ScanNode(0, 0, NilExpr, TRUE)}}

SupportValues ==
    {[kind |-> "valuesNode", hasValuesClause |-> c, tuples |-> t] :
        c \in BOOLEAN, t \in {<<<<ConstExpr, ConstExpr>>>>}} \cup
    {[kind |-> "valuesNode", hasValuesClause |-> TRUE,
      tuples |-> <<<<ConstExpr>>, <<SubqueryExpr>>>>]}

\* Mutations, SET statements, and a node kind the planner does not know.
RejectedKinds == {"insertNode", "updateNode", "deleteNode", "setNode",
                  "setClusterSettingNode", "explainNode"}

Leaves == SupportScans \cup SupportIndexJoins \cup SupportValues \cup
          {[kind |-> k] : k \in RejectedKinds}

\* The nodes with source n.
UnaryNodes(n) ==
    {[kind |-> "filterNode", filter |-> e, source |-> n] :
        e \in {ConstExpr, FuncExpr(FALSE, <<ConstExpr, FuncExpr(FALSE, <<SubqueryExpr>>)>>)}} \cup
    {[kind |-> "renderNode", render |-> r[1], columns |-> r[2], source |-> n] :
        r \in {<<<<ConstExpr, ConstExpr>>, <<IntType, IntType>>>>,
               <<<<ConstExpr, ConstExpr>>, <<IntType, TupleType>>>>,
               <<<<ConstExpr>>, <<ArrayOf(ArrayOf(TupleType))>>>>,
               <<<<ConstExpr>>, <<ArrayOf(IntType)>>>>,
               <<<<ConstExpr, FuncExpr(FALSE, <<SubqueryExpr>>)>>, <<IntType, IntType>>>>}} \cup
    {[kind |-> "sortNode", needSort |-> b, plan |-> n] : b \in BOOLEAN} \cup
    {[kind |-> "groupNode", funcs |-> f, plan |-> n] :
        f \in {<<"SUM">>, <<"SUM", "ARRAY_AGG">>, <<"array_agg">>}} \cup
    {[kind |-> "limitNode", countExpr |-> c[1], offsetExpr |-> c[2], plan |-> n] :
        c \in {<<ConstExpr, NilExpr>>, <<SubqueryExpr, NilExpr>>,
               <<ConstExpr, FuncExpr(TRUE, <<>>)>>}} \cup
    {[kind |-> "distinctNode", plan |-> n]}

\* The joins of n with a leaf, on either side.
JoinSides == {PlainScan, ScanNode(0, 1, NilExpr, FALSE), [kind |-> "deleteNode"]}

SupportJoins(n) ==
    {[kind |-> "joinNode", onCond |-> c[1], numEqualityIndices |-> c[2],
      left |-> s[1], right |-> s[2]] :
        c \in {<<NilExpr, 0>>, <<ConstExpr, 1>>, <<SubqueryExpr, 1>>},
        s \in {<<n, x>> : x \in JoinSides} \cup {<<x, n>> : x \in JoinSides}}

NoNode == [kind |-> "none"]

\* The children of a node.
Children(n) ==
    CASE n.kind \in {"filterNode", "renderNode"} -> {n.source}
      [] n.kind \in {"sortNode", "groupNode", "limitNode", "distinctNode"} -> {n.plan}
      [] n.kind = "joinNode" -> {n.left, n.right}
      [] n.kind = "indexJoinNode" -> {n.table, n.index}
      [] OTHER -> {}

RECURSIVE Depth(_)
Depth(n) == 1 + SetMax({0} \cup {Depth(c) : c \in Children(n)})

SupportIdle ==
    /\ tree = NoNode
    /\ support = [checked |-> FALSE]

\* The span partitioner alone, with no plan.
PartInit ==
    /\ splits \in SUBSET (1..(MaxKey - 1))
    /\ advertised = OwnAddresses
    /\ PartIdle
    /\ PlanIdle
    /\ SupportIdle

PartNext == StartPartitionSpans \/ PartitionStep \/ IterError

SpecPart == PartInit /\ [][PartNext]_vars

\* partitionSpans over a resolver that never fails: the iterator stays valid
\* and it.ReplicaInfo returns no error.  The loop is sequential code, so an
\* iteration that can run does run.
ResolvedNext == StartPartitionSpans \/ PartitionStep

SpecResolved == PartInit /\ [][ResolvedNext]_vars /\ WF_vars(PartitionStep)

\* createPlanForNode on a scanNode.
Scan ==
    /\ phase = "start"
    /\ \E n \in ScanNodes, sp \in SpanPartitions :
        /\ plan' = createTableReaders(n, NodePartitions(sp), NoOverride)
        /\ last' = [op |-> "scan", columns |-> n.resultColumns, n |-> n, partitions |-> sp]
    /\ phase' = "leaf"
    /\ UNCHANGED <<settings, partVars, supportVars>>

\* createPlanForNode on an indexJoinNode.
IndexJoin ==
    /\ phase = "start"
    /\ \E n \in IndexJoinNodes, sp \in SpanPartitions :
        /\ plan' = createPlanForIndexJoin(n, NodePartitions(sp), settings)
        /\ last' = [op |-> "indexjoin", columns |-> n.table.resultColumns, n |-> n,
                    partitions |-> sp]
    /\ phase' = "leaf"
    /\ UNCHANGED <<settings, partVars, supportVars>>

\* createPlanForNode on a joinNode whose left side is the plan built so far
\* and whose right side is a scan.
Join ==
    /\ phase = "leaf"
    /\ last.op = "scan"
    /\ \E right \in {createTableReaders(RightScan, NodePartitions(sp), NoOverride) : sp \in SpanPartitions},
          joinType \in JoinTypes,
          eq \in EqualityIndices(plan.planToStreamColMap) :
        \E ord \in MergeJoinOrderings(Len(eq)) :
        \E numMerged \in {0, Len(eq)} :
        \E n \in {JoinNode(last.columns, plan.planToStreamColMap,
                           RightScan.resultColumns, right.planToStreamColMap,
                           joinType, eq, ord, numMerged, o) :
                      o \in JoinOrderings(eq, ord, numMerged)} :
            /\ plan' = createPlanForJoin(plan, right, n, settings)
            /\ last' = [op |-> "join", n |-> n,
                        leftRouters |-> MergePlans(plan, right).leftRouters,
                        rightRouters |-> MergePlans(plan, right).rightRouters,
                        leftMap |-> plan.planToStreamColMap,
                        rightMap |-> right.planToStreamColMap,
                        columns |-> [i \in 1..Len(n.columns) |-> n.columns[i].Typ]]
    /\ phase' = "joined"
    /\ UNCHANGED <<settings, partVars, supportVars>>

\* createPlanForNode on a groupNode over the scan planned so far.
AddAggregators ==
    /\ phase = "leaf"
    /\ last.op = "scan"
    /\ \E n \in GroupNodes(plan.planToStreamColMap, last.n.ordering) :
        /\ plan' = addAggregators(plan, n)
        /\ last' = [op |-> "aggregate", n |-> n,
                    aggregations |-> Aggregations(plan, n),
                    groupCols |-> [i \in 1..n.numGroupCols |-> plan.planToStreamColMap[i]],
                    routerNodes |-> [i \in 1..Len(plan.ResultRouters) |->
                                        plan.Processors[plan.ResultRouters[i]].Node],
                    numProcessors |-> Len(plan.Processors),
                    columns |-> AggregatorOut(Aggregations(plan, n), plan.ResultTypes),
                    multiStage |-> AggStages(plan, n).multiStage,
                    before |-> plan,
                    local |-> AggStages(plan, n).local,
                    acc |-> IF AggStages(plan, n).multiStage
                            THEN StageAggs(plan, n) ELSE <<>>]
    /\ phase' = "aggregated"
    /\ UNCHANGED <<settings, partVars, supportVars>>

Finalize ==
    /\ phase \in {"leaf", "joined", "aggregated"}
    /\ plan' = FinalizePlan(plan)
    /\ last' = [op |-> "finalize", columns |-> last.columns,
                routerNodes |-> [i \in 1..Len(plan.ResultRouters) |->
                                    plan.Processors[plan.ResultRouters[i]].Node],
                numProcessors |-> Len(plan.Processors)]
    /\ phase' = "final"
    /\ UNCHANGED <<settings, partVars, supportVars>>

PlanInit ==
    /\ splits = {}
    /\ advertised = OwnAddresses
    /\ PartIdle
    /\ settings \in [distribute_index_joins : BOOLEAN, merge_joins : BOOLEAN]
    /\ plan = EmptyPlan
    /\ last = NoLast
    /\ phase = "start"
    /\ SupportIdle

PlanNext == Scan \/ IndexJoin \/ Join \/ Finalize

SpecPlan == PlanInit /\ [][PlanNext]_vars

\* Aggregations over scans, with the settings at their defaults.
AggInit ==
    /\ splits = {}
    /\ advertised = OwnAddresses
    /\ PartIdle
    /\ PlanIdle
    /\ SupportIdle

AggNext == Scan \/ AddAggregators \/ Finalize

SpecAgg == AggInit /\ [][AggNext]_vars

\* createPlanForNode on a valuesNode.
Values ==
    /\ phase = "start"
    /\ \E n \in ValuesNodes :
        /\ plan' = createPlanForValues(n)
        /\ last' = [op |-> "values", columns |-> n.columns, n |-> n]
    /\ phase' = "leaf"
    /\ UNCHANGED <<settings, partVars, supportVars>>

\* createPlanForNode on a renderNode over the plan built so far.
SelectRenders ==
    /\ phase \in {"leaf", "rendered"}
    /\ \E n \in RenderNodes(last.columns, plan.planToStreamColMap) :
        /\ plan' = selectRenders(plan, n)
        /\ last' = [op |-> "render", n |-> n, before |-> plan,
                    columns |-> [i \in 1..Len(n.render) |-> n.render[i].typ]]
    /\ phase' = IF phase = "leaf" THEN "rendered" ELSE "rendered2"
    /\ UNCHANGED <<settings, partVars, supportVars>>

\* createPlanForNode on a sortNode over the plan built so far; matchLen is
\* the length of the prefix of the ordering that the plan provides already.
AddSorters ==
    /\ phase \in {"leaf", "rendered"}
    /\ \E n \in SortNodes(plan.planToStreamColMap) :
       \E matchLen \in 0..Len(n.ordering) :
        /\ plan' = addSorters(plan, n, matchLen)
        /\ last' = [op |-> "sort", n |-> n, matchLen |-> matchLen, before |-> plan,
                    columns |-> SubSeq(last.columns, 1, n.numColumns)]
    /\ phase' = "sorted"
    /\ UNCHANGED <<settings, partVars, supportVars>>

\* Every translation of a planNode over scans and values.
TranslateNext ==
    \/ Scan
    \/ IndexJoin
    \/ Values
    \/ Join
    \/ AddAggregators
    \/ SelectRenders
    \/ AddSorters

SpecTranslate == PlanInit /\ [][TranslateNext]_vars

\* createPlanForNode on a scanNode with any ordering.
OrderedScan ==
    /\ phase = "start"
    /\ \E n \in OrderedScanNodes, sp \in SpanPartitions :
        /\ plan' = createTableReaders(n, NodePartitions(sp), NoOverride)
        /\ last' = [op |-> "scan", columns |-> n.resultColumns, n |-> n, partitions |-> sp]
    /\ phase' = "leaf"
    /\ UNCHANGED <<settings, partVars, supportVars>>

ScanNext == OrderedScan \/ Finalize

SpecScan == AggInit /\ [][ScanNext]_vars

\* The stages over scans: a join with another scan, or an aggregation.
StagesNext == Scan \/ Join \/ AddAggregators

SpecStages == PlanInit /\ [][StagesNext]_vars


\* Two-stage aggregations, executed over rows.
EvalScan ==
    /\ phase = "start"
    /\ plan' = createTableReaders(EvalScanNode, NodePartitions(EvalPartitions), NoOverride)
    /\ last' = [op |-> "scan", columns |-> EvalScanNode.resultColumns, n |-> EvalScanNode,
                partitions |-> EvalPartitions]
    /\ phase' = "leaf"
    /\ UNCHANGED <<settings, partVars, supportVars>>

EvalAggregate ==
    /\ phase = "leaf"
    /\ \E n \in EvalGroupNodes :
        /\ plan' = addAggregators(plan, n)
        /\ last' = [op |-> "aggregate", n |-> n,
                    aggregations |-> Aggregations(plan, n),
                    groupCols |-> [i \in 1..n.numGroupCols |-> plan.planToStreamColMap[i]],
                    routerNodes |-> [i \in 1..Len(plan.ResultRouters) |->
                                        plan.Processors[plan.ResultRouters[i]].Node],
                    numProcessors |-> Len(plan.Processors),
                    inputTypes |-> plan.ResultTypes,
                    columns |-> AggregatorOut(Aggregations(plan, n), plan.ResultTypes)]
    /\ phase' = "aggregated"
    /\ UNCHANGED <<settings, partVars, supportVars>>

\* The plan runs with data[i] read by table reader i; a single aggregator
\* with the aggregations of the groupNode runs over all the rows.
RECURSIVE Concat(_, _)
Concat(data, i) == IF i > Len(data) THEN <<>> ELSE data[i] \o Concat(data, i + 1)

Execute ==
    /\ phase = "aggregated"
    /\ \E data \in [1..MaxParts -> RowSeqs] :
        last' = [op |-> "execute", n |-> last.n, aggregations |-> last.aggregations,
                 data |-> data,
                 result |-> BagOf(ResultRows(plan, data, 1)),
                 reference |-> BagOf(AggregatorRows(
                                   AggregatorCore(last.aggregations, last.groupCols,
                                                  last.inputTypes),
                                   Concat(data, 1)))]
    /\ phase' = "executed"
    /\ UNCHANGED <<plan, settings, partVars, supportVars>>

EvalNext == EvalScan \/ EvalAggregate \/ Execute

SpecAggEval == AggInit /\ [][EvalNext]_vars

\* A query: partitionSpans with the planning context, the table readers (and
\* join readers) on the nodes of the partitions it returned, FinalizePlan, and
\* FinalizePlan once more on the finalized plan.
QueryScanNodes == {n \in ScanNodes : n.ordering = <<>>}
QueryIndexJoinNodes == {n \in IndexJoinNodes : n.index.ordering = <<>>}

PartitionNodes == [i \in 1..Len(returned.partitions) |-> returned.partitions[i].node]

ScanPartitions ==
    /\ pc = "done"
    /\ phase = "start"
    /\ \E n \in QueryScanNodes :
        /\ plan' = createTableReaders(n, returned.partitions, NoOverride)
        /\ last' = [op |-> "scan", columns |-> n.resultColumns, n |-> n,
                    partitions |-> PartitionNodes, spanPartitions |-> returned.partitions]
    /\ phase' = "leaf"
    /\ UNCHANGED <<settings, partVars, supportVars>>

IndexJoinPartitions ==
    /\ pc = "done"
    /\ phase = "start"
    /\ \E n \in QueryIndexJoinNodes :
        /\ plan' = createPlanForIndexJoin(n, returned.partitions, settings)
        /\ last' = [op |-> "indexjoin", columns |-> n.table.resultColumns, n |-> n,
                    partitions |-> PartitionNodes, spanPartitions |-> returned.partitions]
    /\ phase' = "leaf"
    /\ UNCHANGED <<settings, partVars, supportVars>>

\* FinalizePlan on a finalized plan.  The check for a final stage finds the
\* single result router on the gateway, the endpoints are populated and the
\* SYNC_RESPONSE endpoint is appended.  What PopulateEndpoints does with
\* streams that already have endpoints is not in the source: it appends them
\* again, or it rejects the plan.
Refinalize ==
    /\ phase = "final"
    /\ \/ /\ plan' = FinalizePlan(plan)
          /\ last' = [op |-> "refinalize", rejected |-> FALSE, before |-> plan]
       \/ /\ Len(plan.Streams) > 0
          /\ plan' = plan
          /\ last' = [op |-> "refinalize", rejected |-> TRUE, before |-> plan]
    /\ phase' = "final2"
    /\ UNCHANGED <<settings, partVars, supportVars>>

QueryInit ==
    /\ splits \in SUBSET (1..(MaxKey - 1))
    /\ advertised \in AddressConfigs
    /\ PartIdle
    /\ PlanIdle
    /\ SupportIdle

QueryNext ==
    \/ StartPartitionSpans
    \/ PartitionStep
    \/ IterError
    \/ ScanPartitions
    \/ IndexJoinPartitions
    \/ Finalize
    \/ Refinalize

SpecQuery == QueryInit /\ [][QueryNext]_vars

\* The trees handed to CheckSupport: a leaf, wrapped in nodes up to MaxDepth.
BuildLeaf ==
    /\ tree = NoNode
    /\ tree' \in Leaves
    /\ UNCHANGED <<support, partVars, planVars>>

BuildUnary ==
    /\ tree # NoNode
    /\ ~support.checked
    /\ Depth(tree) < MaxDepth
    /\ tree' \in UnaryNodes(tree)
    /\ UNCHANGED <<support, partVars, planVars>>

BuildJoin ==
    /\ tree # NoNode
    /\ ~support.checked
    /\ Depth(tree) < MaxDepth
    /\ tree' \in SupportJoins(tree)
    /\ UNCHANGED <<support, partVars, planVars>>

CheckSupport ==
    /\ tree # NoNode
    /\ ~support.checked
    /\ support' = [checked |-> TRUE] @@ CheckSupportResult(tree)
    /\ UNCHANGED <<tree, partVars, planVars>>

SupportInit ==
    /\ splits = {}
    /\ advertised = OwnAddresses
    /\ PartIdle
    /\ PlanIdle
    /\ SupportIdle

SupportNext == BuildLeaf \/ BuildUnary \/ BuildJoin \/ CheckSupport

SpecSupport == SupportInit /\ [][SupportNext]_vars


(***************************************************************************)
(* Properties of the translators.                                          *)
(***************************************************************************)
NoopAppended(numProcessors, p) ==
    /\ Len(p.Processors) = numProcessors + 1
    /\ p.Processors[Len(p.Processors)].Core.kind = "Noop"
    /\ p.Processors[Len(p.Processors)].Node = Gateway
    /\ p.ResultRouters = <<Len(p.Processors)>>

\* C1: after FinalizePlan the plan has exactly one result router, placed on
\* the gateway, whose output carries a SYNC_RESPONSE endpoint; a Noop stage on
\* the gateway was appended if and only if the plan had more than one result
\* router or its single result router was not on the gateway, and no
\* processor was added otherwise.
C1_FinalizePlan ==
    last.op = "finalize" =>
        LET rr  == plan.Processors[plan.ResultRouters[1]]
            needed == \/ Len(last.routerNodes) > 1
                      \/ /\ Len(last.routerNodes) = 1
                         /\ last.routerNodes[1] # Gateway
        IN  /\ Len(plan.ResultRouters) = 1
            /\ rr.Node = Gateway
            /\ \E i \in 1..Len(rr.Output.Streams) : rr.Output.Streams[i].Type = "SYNC_RESPONSE"
            /\ NoopAppended(last.numProcessors, plan) <=> needed
            /\ ~needed => Len(plan.Processors) = last.numProcessors

\* A single result router away from the gateway was finalized.
C1_Witness ==
    /\ last.op = "finalize"
    /\ Len(last.routerNodes) = 1
    /\ last.routerNodes[1] # Gateway
    /\ NoopAppended(last.numProcessors, plan)

Joiners(p) == {i \in 1..Len(p.Processors) : p.Processors[i].Core.kind \in {"HashJoiner", "MergeJoiner"}}
NodesOf(p, routers) == {p.Processors[routers[i]].Node : i \in 1..Len(routers)}
StreamCols(map, indices) == [i \in 1..Len(indices) |-> At(map, indices[i])]

\* C4: a join with at least one equality column has exactly one joiner on
\* every node that hosts a left or right result router and none elsewhere;
\* with more than one joiner, every left (right) result router hashes on the
\* left (right) equality columns, position by position the columns of the
\* same equality, and bucket i of every router feeds joiner i, left routers
\* into input 0 and right routers into input 1.
C4_JoinersPerNode ==
    (last.op = "join" /\ Len(last.n.leftEqualityIndices) >= 1) =>
        LET nodes == NodesOf(plan, last.leftRouters) \cup NodesOf(plan, last.rightRouters)
            K == Cardinality(Joiners(plan))
            leftCols == StreamCols(last.leftMap, last.n.leftEqualityIndices)
            rightCols == StreamCols(last.rightMap, last.n.rightEqualityIndices)
            fed(routers, input) ==
                \A r \in Range(routers), b \in 0..(K - 1) :
                    Cardinality({i \in 1..Len(plan.Streams) :
                        /\ plan.Streams[i].SourceProcessor = r
                        /\ plan.Streams[i].SourceRouterSlot = b
                        /\ plan.Streams[i].DestProcessor = plan.ResultRouters[b + 1]
                        /\ plan.Streams[i].DestInput = input}) = 1
        IN  /\ K = Cardinality(nodes)
            /\ \A node \in nodes :
                   Cardinality({i \in Joiners(plan) : plan.Processors[i].Node = node}) = 1
            /\ Range(plan.ResultRouters) = Joiners(plan)
            /\ Len(plan.ResultRouters) = K
            /\ K > 1 =>
                /\ \A r \in Range(last.leftRouters) :
                       plan.Processors[r].Output = ByHash(leftCols)
                /\ \A r \in Range(last.rightRouters) :
                       plan.Processors[r].Output = ByHash(rightCols)
            /\ fed(last.leftRouters, 0)
            /\ fed(last.rightRouters, 1)
            /\ Cardinality({i \in 1..Len(plan.Streams) : plan.Streams[i].DestProcessor \in Joiners(plan)})
                   = K * (Len(last.leftRouters) + Len(last.rightRouters))

\* Two equality columns, and a right side with a node the left side lacks.
C4_Witness ==
    /\ last.op = "join"
    /\ Len(last.n.leftEqualityIndices) = 2
    /\ Cardinality(Joiners(plan)) = 3
    /\ Len(last.leftRouters) = 2
    /\ StreamCols(last.leftMap, last.n.leftEqualityIndices)
           # StreamCols(last.rightMap, last.n.rightEqualityIndices)
    /\ \A r \in Range(last.leftRouters) : plan.Processors[r].Output.Type = "BY_HASH"

\* C5: a join without equality columns has exactly one joiner, on the node
\* of the left side's result router if the left side has exactly one, else
\* on the node of the right side's if the right side has exactly one, else on
\* the gateway; and no router of the plan hashes.
C5_SingleJoiner ==
    (last.op = "join" /\ Len(last.n.leftEqualityIndices) = 0) =>
        /\ Cardinality(Joiners(plan)) = 1
        /\ \A j \in Joiners(plan) :
               /\ plan.ResultRouters = <<j>>
               /\ plan.Processors[j].Node =
                      IF Len(last.leftRouters) = 1
                      THEN plan.Processors[last.leftRouters[1]].Node
                      ELSE IF Len(last.rightRouters) = 1
                      THEN plan.Processors[last.rightRouters[1]].Node
                      ELSE Gateway
        /\ \A i \in 1..Len(plan.Processors) : plan.Processors[i].Output.Type # "BY_HASH"

\* No equality columns, several left routers, and one right router away from
\* the gateway.
C5_Witness ==
    /\ last.op = "join"
    /\ Len(last.n.leftEqualityIndices) = 0
    /\ Len(last.leftRouters) > 1
    /\ Len(last.rightRouters) = 1
    /\ plan.Processors[last.rightRouters[1]].Node # Gateway
    /\ plan.Processors[plan.ResultRouters[1]].Node = plan.Processors[last.rightRouters[1]].Node

MergeOrderingOf(map, indices, ord) ==
    [i \in 1..Len(ord) |-> [ColIdx |-> At(map, At(indices, ord[i].ColIdx)),
                            Direction |-> ord[i].Direction]]

\* C9: the joiners are merge-joiners if and only if merge_joins.enabled is
\* true, the join is inner, it has at least one equality column and the
\* merge-join ordering has as many columns as there are equality columns;
\* otherwise they are hash-joiners.  Column i of a merge-joiner's left
\* (right) ordering is the left (right) equality stream column at position
\* mergeJoinOrdering[i].ColIdx, with the direction of mergeJoinOrdering[i].
C9_MergeJoinSelection ==
    last.op = "join" =>
        LET n == last.n
            merge == /\ settings.merge_joins
                     /\ n.joinType = "INNER"
                     /\ Len(n.leftEqualityIndices) >= 1
                     /\ Len(n.mergeJoinOrdering) = Len(n.leftEqualityIndices)
        IN  /\ Joiners(plan) # {}
            /\ \A j \in Joiners(plan) :
                   LET core == plan.Processors[j].Core
                   IN  /\ core.kind = IF merge THEN "MergeJoiner" ELSE "HashJoiner"
                       /\ merge =>
                           /\ core.LeftOrdering =
                                  MergeOrderingOf(last.leftMap, n.leftEqualityIndices,
                                                  n.mergeJoinOrdering)
                           /\ core.RightOrdering =
                                  MergeOrderingOf(last.rightMap, n.rightEqualityIndices,
                                                  n.mergeJoinOrdering)

\* A merge-joiner over two equality columns, ordered by the second (descending)
\* and then the first.
C9_Witness ==
    /\ last.op = "join"
    /\ Len(last.n.leftEqualityIndices) = 2
    /\ Len(last.n.mergeJoinOrdering) = 2
    /\ \A j \in Joiners(plan) :
           /\ plan.Processors[j].Core.kind = "MergeJoiner"
           /\ plan.Processors[j].Core.LeftOrdering[1].Direction = "DESC"
           /\ plan.Processors[j].Core.LeftOrdering # plan.Processors[j].Core.RightOrdering

JoinReaders(p) == {i \in 1..Len(p.Processors) : p.Processors[i].Core.kind = "JoinReader"}

\* C10: with distribute_index_joins true and more than one table reader under
\* the index join there is one join-reader per table reader, on the table
\* reader's node and fed by it alone; otherwise there is exactly one
\* join-reader, on the table reader's node when there is one table reader and
\* on the gateway when there are several.
C10_IndexJoinPlacement ==
    last.op = "indexjoin" =>
        LET k == Len(last.partitions)
            feeds(r, j) == \E i \in 1..Len(plan.Streams) :
                              /\ plan.Streams[i].SourceProcessor = r
                              /\ plan.Streams[i].DestProcessor = j
        IN  /\ \A r \in 1..k : /\ plan.Processors[r].Core.kind = "TableReader"
                               /\ plan.Processors[r].Node = last.partitions[r]
            /\ Range(plan.ResultRouters) = JoinReaders(plan)
            /\ IF settings.distribute_index_joins /\ k > 1
               THEN /\ Cardinality(JoinReaders(plan)) = k
                    /\ \A r \in 1..k :
                           \E j \in JoinReaders(plan) :
                               /\ plan.Processors[j].Node = plan.Processors[r].Node
                               /\ \A q \in 1..k : feeds(q, j) <=> q = r
               ELSE /\ Cardinality(JoinReaders(plan)) = 1
                    /\ \A j \in JoinReaders(plan) :
                           /\ plan.Processors[j].Node =
                                  IF k = 1 THEN plan.Processors[1].Node ELSE Gateway
                           /\ \A q \in 1..k : feeds(q, j)

\* Several table readers, none on the gateway, and the setting off: a single
\* join-reader on the gateway.
C10_Witness ==
    /\ last.op = "indexjoin"
    /\ ~settings.distribute_index_joins
    /\ Len(last.partitions) > 1
    /\ Gateway \notin Range(last.partitions)
    /\ Cardinality(JoinReaders(plan)) = 1
    /\ plan.Processors[plan.ResultRouters[1]].Node = Gateway

Aggregators(p) == {i \in 1..Len(p.Processors) : p.Processors[i].Core.kind = "Aggregator"}
AggregatorStages(p) == {p.Processors[i].StageID : i \in Aggregators(p)}

\* C6: the aggregators form two stages (a local one after every upstream
\* result router and a final one) if and only if the upstream result routers
\* are on more than one node, every aggregate's function is in
\* DistAggregationTable and no aggregate is distinct; otherwise they form one
\* stage, which computes the aggregations of the groupNode over its group
\* columns.
C6_TwoStageEligibility ==
    last.op = "aggregate" =>
        LET aggs == last.aggregations
            eligible == /\ Cardinality(Range(last.routerNodes)) > 1
                        /\ \A i \in 1..Len(aggs) : aggs[i].Func \in DOMAIN DistAggregationTable
                        /\ \A i \in 1..Len(aggs) : ~aggs[i].Distinct
            stages == AggregatorStages(plan)
            first == SetMin(stages)
        IN  IF eligible
            THEN /\ Cardinality(stages) = 2
                 /\ Cardinality({i \in Aggregators(plan) : plan.Processors[i].StageID = first})
                        = Len(last.routerNodes)
                 /\ \A i \in Aggregators(plan) :
                        plan.Processors[i].StageID # first => i \in Range(plan.ResultRouters)
            ELSE /\ Cardinality(stages) = 1
                 /\ Aggregators(plan) = Range(plan.ResultRouters)
                 /\ \A i \in Aggregators(plan) :
                        /\ plan.Processors[i].Core.Aggregations = aggs
                        /\ plan.Processors[i].Core.GroupCols = last.groupCols

\* Two aggregates were planned in two stages.
C6_Witness ==
    /\ last.op = "aggregate"
    /\ Len(last.aggregations) = 2
    /\ Cardinality(Range(last.routerNodes)) > 1
    /\ Cardinality(AggregatorStages(plan)) = 2

\* C7: for every two-stage aggregation and all rows split across the streams,
\* the rows of the plan, read as columns of the groupNode, are the rows a
\* single aggregator with the groupNode's aggregations computes over all the
\* rows together: every aggregate has the same value for every group.
C7_TwoStageEquivalence ==
    last.op = "execute" =>
        /\ Cardinality(AggregatorStages(plan)) = 2
        /\ last.result = last.reference

\* SUM(x) and AVG(x) share local and final aggregations; every stream has rows
\* and some value is NULL.
C7_Witness ==
    /\ last.op = "execute"
    /\ [i \in 1..Len(last.n.funcs) |-> last.n.funcs[i].Func] = <<"SUM", "AVG">>
    /\ last.n.numGroupCols = 1
    /\ \A i \in 1..Len(last.data) : Len(last.data[i]) = MaxRows
    /\ \E i \in 1..Len(last.data) : last.data[i][1][2] = Null
    /\ last.result = last.reference
    /\ \E row \in DOMAIN last.result : row[1] # Null /\ row[2] # Null /\ row[2] # row[1] * AvgScale

\* C8: the columns that every result router of a translated plan emits have
\* the types listed in the plan's ResultTypes, as many and in the same order.
C8_ResultTypes ==
    last.op \in {"scan", "indexjoin", "join", "aggregate"} =>
        \A i \in 1..Len(plan.ResultRouters) :
            OutTypes(plan, plan.ResultRouters[i]) = plan.ResultTypes

\* The processors that feed the result routers of the plan.
Upstream(p) ==
    {p.Streams[s].SourceProcessor :
        s \in {t \in 1..Len(p.Streams) : p.Streams[t].DestProcessor \in Range(p.ResultRouters)}}

\* The aggregators of the last aggregator stage.
FinalAggregators(p) ==
    {i \in Aggregators(p) : p.Processors[i].StageID = SetMax(AggregatorStages(p))}

\* C11: the aggregators of the final (or only) stage are the new result
\* routers.  Without group columns, or with one upstream result router, there
\* is exactly one, on the node of the upstream routers if they share one and
\* on the gateway otherwise.  In every other case there is one per upstream
\* router, aggregator i on the node of upstream router i, and every upstream
\* router distributes BY_HASH on the group columns of the final aggregators.
C11_FinalStagePlacement ==
    last.op = "aggregate" =>
        LET k == Len(last.routerNodes)
            final == plan.ResultRouters
            up == Upstream(plan)
        IN  /\ FinalAggregators(plan) = Range(final)
            /\ Cardinality(FinalAggregators(plan)) = Len(final)
            /\ IF last.n.numGroupCols = 0 \/ k = 1
               THEN /\ Len(final) = 1
                    /\ plan.Processors[final[1]].Node =
                           IF Cardinality(Range(last.routerNodes)) = 1
                           THEN last.routerNodes[1] ELSE Gateway
               ELSE /\ Len(final) = k
                    /\ \A i \in 1..k : plan.Processors[final[i]].Node = last.routerNodes[i]
                    /\ Cardinality(up) = k
                    /\ \A u \in up :
                        /\ plan.Processors[u].Output.Type = "BY_HASH"
                        /\ plan.Processors[u].Output.HashColumns =
                               plan.Processors[final[1]].Core.GroupCols
                        /\ Len(plan.Processors[u].Output.HashColumns) = last.n.numGroupCols
                        /\ \A b \in 1..k : \E s \in 1..Len(plan.Streams) :
                               plan.Streams[s] = [SourceProcessor |-> u, SourceRouterSlot |-> b - 1,
                                                  DestProcessor |-> final[b], DestInput |-> 0]

\* A grouped aggregation over two streams was distributed by hash to two
\* final aggregators away from the gateway.
C11_Witness ==
    /\ last.op = "aggregate"
    /\ last.n.numGroupCols = 1
    /\ Len(last.routerNodes) = 2
    /\ Gateway \notin Range(last.routerNodes)
    /\ Len(plan.ResultRouters) = 2
    /\ \A u \in Upstream(plan) : plan.Processors[u].Output.Type = "BY_HASH"

(***************************************************************************)
(* Properties of the support predicate.                                    *)
(***************************************************************************)
\* The nodes of a tree, at any depth.
RECURSIVE NodesIn(_)
NodesIn(n) == {n} \cup UNION {NodesIn(c) : c \in Children(n)}

LimitedScan(m) == m.kind = "scanNode" /\ (m.hardLimit # 0 \/ m.softLimit # 0)

\* C12 as stated: for every supported tree in which some scan node, anywhere,
\* has a non-zero hard or soft limit, checkSupportForNode recommends
\* shouldNotDistribute and CheckSupport returns false, whatever the other
\* nodes recommend.
C12_LimitedScanAvoids ==
    (/\ support.checked
     /\ support.err = NoErr
     /\ \E m \in NodesIn(tree) : LimitedScan(m))
        => /\ support.rec = shouldNotDistribute
           /\ ~support.distribute

\* The nodes whose recommendation checkSupportForNode composes: the nodes of
\* the tree that are not under the table scan of an index join.
RECURSIVE ComposedNodes(_)
ComposedNodes(n) ==
    {n} \cup UNION {ComposedNodes(c) :
                       c \in IF n.kind = "indexJoinNode" THEN {n.index} ELSE Children(n)}

\* C12, amended: for every supported tree in which some scan node other than
\* the table scan of an index join has a non-zero hard or soft limit,
\* checkSupportForNode recommends shouldNotDistribute and CheckSupport returns
\* false, whatever the other nodes recommend.
C12_LimitedScanAvoidsAmended ==
    (/\ support.checked
     /\ support.err = NoErr
     /\ \E m \in ComposedNodes(tree) : LimitedScan(m))
        => /\ support.rec = shouldNotDistribute
           /\ ~support.distribute

\* A hash join whose left side aggregates a full scan with a hard limit was
\* not recommended for distribution.
C12_Witness ==
    /\ support.checked
    /\ support.err = NoErr
    /\ tree.kind = "joinNode"
    /\ tree.numEqualityIndices = 1
    /\ tree.left.kind = "groupNode"
    /\ tree.left.plan = ScanNode(1, 0, NilExpr, TRUE)
    /\ tree.right = PlainScan
    /\ support.rec = shouldNotDistribute
    /\ ~support.distribute

RECURSIVE ContainsUnsupported(_)
ContainsUnsupported(expr) ==
    \/ expr.kind = "subquery"
    \/ /\ expr.kind = "func"
       /\ \/ expr.blacklist
          \/ \E i \in 1..Len(expr.args) : ContainsUnsupported(expr.args[i])

RECURSIVE TupleBased(_)
TupleBased(t) == t.family = "TUPLE" \/ (t.family = "ARRAY" /\ TupleBased(t.Typ))

\* The expressions of a node.
ExprsOf(m) ==
    CASE m.kind \in {"filterNode", "scanNode"} -> {m.filter}
      [] m.kind = "renderNode" -> Range(m.render)
      [] m.kind = "joinNode" -> {m.onCond}
      [] m.kind = "limitNode" -> {m.countExpr, m.offsetExpr}
      [] m.kind = "valuesNode" -> UNION {Range(m.tuples[i]) : i \in 1..Len(m.tuples)}
      [] OTHER -> {}

SupportedKinds == {"filterNode", "renderNode", "sortNode", "joinNode", "scanNode",
                   "indexJoinNode", "groupNode", "limitNode", "distinctNode", "valuesNode"}

\* A node that DistSQL does not support, whatever is around it.
UnsupportedNode(m) ==
    \/ m.kind \notin SupportedKinds
    \/ m.kind = "groupNode"
       /\ \E i \in 1..Len(m.funcs) : m.funcs[i] \in {"ARRAY_AGG", "array_agg", "Array_Agg"}
    \/ m.kind = "renderNode" /\ \E i \in 1..Len(m.columns) : TupleBased(m.columns[i])
    \/ \E e \in ExprsOf(m) : ContainsUnsupported(e)

\* C13: if any node of the tree, at any depth, is a mutation, a SET node, a
\* node of an unknown kind, a groupNode with ARRAY_AGG, a renderNode with a
\* tuple or array-of-tuple column, or has an expression that contains a
\* subquery or a blacklisted function, then checkSupportForNode returns a
\* query-not-supported error and CheckSupport does not recommend distribution.
C13_UnsupportedRejected ==
    (/\ support.checked
     /\ \E m \in NodesIn(tree) : UnsupportedNode(m))
        => /\ support.err \in QueryNotSupportedErrors
           /\ ~support.distribute

\* A hash join over an aggregation over a scan whose filter calls a
\* blacklisted function inside another function was rejected.
C13_Witness ==
    /\ support.checked
    /\ tree.kind = "joinNode"
    /\ tree.numEqualityIndices = 1
    /\ tree.onCond = ConstExpr
    /\ tree.left.kind = "groupNode"
    /\ tree.left.plan.kind = "scanNode"
    /\ tree.left.plan.filter = FuncExpr(FALSE, <<FuncExpr(TRUE, <<ConstExpr>>)>>)
    /\ tree.right = PlainScan
    /\ support.err = "function cannot be executed with distsql"

(***************************************************************************)
(* Properties of the span partitioner.                                     *)
(***************************************************************************)
\* The pieces of the returned partitions: <<partition index, span index>>.
ReturnedPieces ==
    {<<i, j>> : i \in 1..Len(returned.partitions), j \in 1..MaxKey} \
    {x \in (1..Len(returned.partitions)) \X (1..MaxKey) :
        x[2] > Len(returned.partitions[x[1]].spans)}
PieceSpan(x) == returned.partitions[x[1]].spans[x[2]]

\* C2: when partitionSpans returns without error, the spans of the partitions
\* are well-formed and pairwise non-overlapping, and their union is exactly the
\* union of the input spans.
C2_PartitioningOfInput ==
    (pc = "done") =>
        /\ \A x \in ReturnedPieces : PieceSpan(x).Key < PieceSpan(x).EndKey
        /\ \A x, y \in ReturnedPieces :
              x # y => KeysOf(PieceSpan(x)) \cap KeysOf(PieceSpan(y)) = {}
        /\ UNION {KeysOf(PieceSpan(x)) : x \in ReturnedPieces}
              = UNION {KeysOf(spans[i]) : i \in 1..Len(spans)}

\* A call over two spans that returned two partitions, one of them holding two
\* spans, after a node was replaced by the gateway.
C2_Witness ==
    /\ pc = "done"
    /\ Len(spans) = 2
    /\ Len(returned.partitions) = 2
    /\ \E i \in 1..2 : Len(returned.partitions[i].spans) = 2
    /\ failedHealth \cup failedVersion # {}

C14_IteratorError ==
    /\ lastAssign.iterErr # "nil" =>
        /\ pc = "error"
        /\ returned.err = lastAssign.iterErr
        /\ returned.partitions = <<>>
    /\ pc = "error" => lastAssign.iterErr \in IteratorErrors
    /\ pc = "done" => returned.err = "nil"

\* ReplicaInfo failed in the second span, after partitions on two nodes had
\* been accumulated.
C14_Witness ==
    /\ pc = "error"
    /\ returned = [partitions |-> <<>>, err |-> "ReplicaInfo error"]
    /\ spanIdx = 2
    /\ Len(partitions) = 2

(***************************************************************************)
(* Properties of finalized plans and of the planning context.              *)
(***************************************************************************)
SyncResponses(p) ==
    LET out == p.Processors[p.ResultRouters[1]].Output.Streams
    IN  Cardinality({i \in 1..Len(out) : out[i].Type = "SYNC_RESPONSE"})

\* C15: FinalizePlan on a finalized plan is rejected, or it leaves the
\* processors, the streams and the result routers as they are and the result
\* router's output with exactly one SYNC_RESPONSE endpoint.
C15_FinalizeIdempotent ==
    last.op = "refinalize" =>
        \/ last.rejected
        \/ /\ plan.Processors = last.before.Processors
           /\ plan.Streams = last.before.Streams
           /\ plan.ResultRouters = last.before.ResultRouters
           /\ SyncResponses(plan) = 1

\* Two distinct node ids of the address map share an address.
AddressCollision(addresses) ==
    \E a, b \in Nodes : a # b /\ addresses[a] # NoEntry /\ addresses[a] = addresses[b]

\* C16: FinalizePlan does not produce a finalized plan when two node ids of
\* the planning context's address map share an address, and
\* sanityCheckAddresses returns an error exactly for such maps.
C16_CollisionCheckedOnFinalize ==
    /\ phase \in {"final", "final2"} => ~AddressCollision(nodeAddresses)
    /\ sanityCheckAddresses(nodeAddresses) # "nil" <=> AddressCollision(nodeAddresses)

HasAddress(n) == nodeAddresses[n] \notin {NoEntry, EmptyAddr}

C20_Addressed ==
    /\ HasAddress(Gateway)
    /\ phase \in {"final", "final2"} =>
           \A i \in 1..Len(plan.Processors) : HasAddress(plan.Processors[i].Node)

C20_EntriesKept ==
    \A n \in Nodes : nodeAddresses[n] # NoEntry => nodeAddresses'[n] = nodeAddresses[n]

\* C20: in a finalized plan every processor's node has a non-empty address
\* in the planning context's address map; the gateway's entry is there from
\* NewPlanningCtx on, and no step of partitionSpans removes or changes an
\* entry the map already holds.
C20_ProcessorsAddressed == []C20_Addressed /\ [][C20_EntriesKept]_vars

\* A finalized plan with a processor away from the gateway, planned by a
\* call of partitionSpans in which a node failed its health check.
C20_Witness ==
    /\ phase = "final"
    /\ failedHealth # {}
    /\ \E i \in 1..Len(plan.Processors) : plan.Processors[i].Node # Gateway
    /\ \E n \in Nodes \ {Gateway} : nodeAddresses[n] # NoEntry

(***************************************************************************)
(* Properties of the partitions, continued.                                *)
(***************************************************************************)
AscendingSpans(q) == \A j \in 2..Len(q) : q[j].Key >= q[j - 1].EndKey

HashedToSeveral ==
    /\ last.op = "join"
    /\ Len(plan.ResultRouters) > 1
    /\ \A r \in Range(last.leftRouters) \cup Range(last.rightRouters) :
           plan.Processors[r].Output.Type = "BY_HASH"

\* After the local aggregators and after the final aggregators, on one node
\* or hash-distributed, the merge ordering is the terminated one.
AggregationTerminates ==
    last.op = "aggregate" =>
        /\ plan.MergeOrdering = orderingTerminated
        /\ last.multiStage => last.local.MergeOrdering = orderingTerminated

\* C18 as stated: the merge ordering is the terminated one after a join
\* whose inputs are redistributed by hash to several joiners, after the local
\* aggregators, and after the final aggregators.
C18_OrderingTerminated ==
    /\ HashedToSeveral => plan.MergeOrdering = orderingTerminated
    /\ AggregationTerminates

\* C18, amended: after the aggregation stages the merge ordering is the
\* terminated one; after a join to several joiners it is the ordering of the
\* joinNode on the stream columns, terminated when the joinNode has none.
C18_OrderingTerminatedAmended ==
    /\ HashedToSeveral =>
           /\ Len(plan.MergeOrdering) = Len(last.n.ordering)
           /\ \A i \in 1..Len(last.n.ordering) :
                  /\ plan.MergeOrdering[i].ColIdx =
                         At(plan.planToStreamColMap, last.n.ordering[i].ColIdx)
                  /\ plan.MergeOrdering[i].Direction = last.n.ordering[i].Direction
    /\ AggregationTerminates

\* Joiners on several nodes, fed by hash routers, whose output the next
\* stage has to merge in the order of the joinNode.
C18_Witness ==
    /\ HashedToSeveral
    /\ plan.MergeOrdering # orderingTerminated

InStream(p) ==
    \A i \in 1..Len(p.planToStreamColMap) :
        \/ p.planToStreamColMap[i] = -1
        \/ /\ 0 <= p.planToStreamColMap[i]
           /\ p.planToStreamColMap[i] < Len(p.ResultTypes)

\* C19: after every translation step every entry of planToStreamColMap is -1
\* or the index of a result column.
C19_MapInRange == phase # "start" => InStream(plan)

\* A rendering of one computed column over a plan with a merge ordering: the
\* column of the ordering is kept in the stream though no column of the
\* renderNode maps to it.
C19_Witness ==
    /\ last.op = "render"
    /\ last.before.MergeOrdering # <<>>
    /\ \E i \in 1..Len(last.before.planToStreamColMap) : last.before.planToStreamColMap[i] = -1
    /\ Len(plan.ResultTypes) > Len(plan.planToStreamColMap)

(***************************************************************************)
(* Properties of scans and sorts.                                          *)
(***************************************************************************)
\* An ordering of a planNode on the columns of the plan's stream.
OnStream(ordering, p) ==
    [i \in 1..Len(ordering) |->
        [ColIdx |-> At(p.planToStreamColMap, ordering[i].ColIdx),
         Direction |-> ordering[i].Direction]]

\* C21: the plan of a scan has the scan's ordering, on the stream columns,
\* as its MergeOrdering when there are several table readers and the
\* ordering is not empty, and the empty MergeOrdering otherwise.
C21_ScanMergeOrdering ==
    (phase = "leaf" /\ last.op = "scan") =>
        IF Len(last.partitions) > 1 /\ Len(last.n.ordering) > 0
        THEN /\ plan.MergeOrdering = OnStream(last.n.ordering, plan)
             /\ plan.MergeOrdering # <<>>
        ELSE plan.MergeOrdering = <<>>

\* Several table readers of a scan ordered, descending, by a column that is
\* not needed.
C21_Witness ==
    /\ phase = "leaf"
    /\ last.op = "scan"
    /\ Len(last.partitions) > 1
    /\ Len(last.n.ordering) > 0
    /\ last.n.ordering[1].Direction = "DESC"
    /\ ~last.n.valNeededForCol[last.n.ordering[1].ColIdx + 1]
    /\ plan.MergeOrdering # <<>>

(***************************************************************************)
(* Properties of the aggregation stages, continued.                        *)
(***************************************************************************)
DistinctProcessors(p) ==
    {i \in 1..Len(p.Processors) : p.Processors[i].Core.kind = "Distinct"}

\* C22: a local distinct stage is there only when every aggregate of the
\* groupNode is distinct.
C22_LocalDistinctOnlyAllDistinct ==
    (last.op = "aggregate" /\ DistinctProcessors(plan) # {}) =>
        \A i \in 1..Len(last.aggregations) : last.aggregations[i].Distinct

(***************************************************************************)
(* Properties of the loop of partitionSpans.                               *)
(***************************************************************************)
RECURSIVE TotalSpans(_)
TotalSpans(parts) ==
    IF parts = <<>> THEN 0 ELSE Len(Head(parts).spans) + TotalSpans(Tail(parts))

\* One range was assigned: the loop body ran to its end.
Assigned == pc = "loop" /\ pc' \in {"loop", "done"}

\* The partition of the node the range was assigned to, after the step.
AssignedPartition == partitions'[nodeMap'[lastAssign'.nodeID]]

\* A range that follows, in the same input span, a range assigned to the
\* same node extends that node's last span to its clipped end and adds no
\* span; any other range adds one span, from the last end key to its end.
CoalesceStep ==
    Assigned =>
        LET q == AssignedPartition.spans
        IN  /\ q[Len(q)].EndKey = lastAssign'.to
            /\ IF lastNodeID # 0 /\ lastNodeID = lastAssign'.nodeID
               THEN TotalSpans(partitions') = TotalSpans(partitions)
               ELSE /\ TotalSpans(partitions') = TotalSpans(partitions) + 1
                    /\ q[Len(q)].Key = lastKey

\* Two spans of a partition meet only where two input spans meet, and every
\* span of a partition lies within one input span.
CoalescedPartitions ==
    pc = "done" =>
        \A i \in 1..Len(returned.partitions) :
            LET q == returned.partitions[i].spans
            IN  /\ \A j \in 2..Len(q) :
                       q[j - 1].EndKey = q[j].Key =>
                           \E k \in 2..Len(spans) : spans[k].Key = q[j].Key
                /\ \A j \in 1..Len(q) :
                       \E k \in 1..Len(spans) :
                           spans[k].Key <= q[j].Key /\ q[j].EndKey <= spans[k].EndKey

\* C23: consecutive ranges of one input span on the same node are coalesced
\* into one span, so that spans of a partition within one input span are
\* never adjacent, and pieces of different input spans are never merged.
C23_Coalescing == []CoalescedPartitions /\ [][CoalesceStep]_vars

\* Two adjacent input spans on one node: the ranges of each were coalesced,
\* the two spans were not.
C23_Witness ==
    /\ pc = "done"
    /\ Len(spans) = 2
    /\ spans[1].EndKey = spans[2].Key
    /\ lastAssign.merged
    /\ \E i \in 1..Len(returned.partitions) :
           LET q == returned.partitions[i].spans
           IN  \E j \in 2..Len(q) : q[j - 1].EndKey = q[j].Key

\* A version lookup is for a node without a cached decision and caches one;
\* a cached decision stays as it is while the call runs; a range whose
\* leaseholder was found incompatible earlier in the call goes to the
\* gateway without a lookup.
VersionCachedStep ==
    Assigned =>
        LET a == lastAssign'
        IN  /\ a.verLookup => /\ nodeVerCompatMap[a.leaseholder] = "none"
                              /\ nodeVerCompatMap'[a.leaseholder] # "none"
            /\ \A n \in Nodes :
                   nodeVerCompatMap[n] # "none" => nodeVerCompatMap'[n] = nodeVerCompatMap[n]
            /\ a.leaseholder \in failedVersion => (a.nodeID = Gateway /\ ~a.verLookup)

\* C24: within one call of partitionSpans the version of a node is looked up
\* at most once, and the ranges of a node found incompatible go to the
\* gateway on the cached decision.
C24_VersionLookedUpOnce == [][VersionCachedStep]_vars

\* A range of a later input span whose leaseholder was found incompatible
\* while an earlier span was resolved.
C24_Witness ==
    /\ lastAssign.valid
    /\ lastAssign.span = 2
    /\ lastAssign.leaseholder \in failedVersion
    /\ nodeVerCompatMap[lastAssign.leaseholder] = "false"
    /\ ~lastAssign.verLookup
    /\ lastAssign.nodeID = Gateway

\* C25: when partitionSpans has returned, every node whose health check
\* failed during the call has the empty address in the address map.
C25_UnhealthyMarkedEmpty ==
    pc = "done" => \A n \in failedHealth : nodeAddresses[n] = EmptyAddr

(***************************************************************************)
(* Properties of the local and final aggregations.                         *)
(***************************************************************************)
NoEqualPair(aggs) ==
    \A i \in 1..Len(aggs) : \A j \in (i + 1)..Len(aggs) : ~Equals(aggs[i], aggs[j])

\* The aggregations of the local aggregators and of the final aggregators.
LocalAggsOf(p) == p.Processors[p.ResultRouters[1]].Core.Aggregations
FinalSpecOf(p) == p.Processors[p.ResultRouters[1]].Core

TwoStages ==
    /\ phase = "aggregated"
    /\ last.op = "aggregate"
    /\ last.multiStage

\* C26: on the two-stage path no two local aggregations are equal and no
\* two final aggregations are equal; the local aggregation at the index
\* recorded for local stage i of aggregation e has that stage's function and
\* the input columns and filter column of e; the inputs of every final
\* aggregation are indices into the local list; and final group column i is
\* the index of the IDENT local aggregation of group column i.
C26_StageAggregations ==
    TwoStages =>
        LET L == LocalAggsOf(last.local)
            F == FinalSpecOf(plan).Aggregations
            G == FinalSpecOf(plan).GroupCols
            A == last.aggregations
        IN  /\ \A r \in Range(last.local.ResultRouters) :
                   last.local.Processors[r].Core.Aggregations = last.acc.localAggs
            /\ \A r \in Range(plan.ResultRouters) :
                   /\ plan.Processors[r].Core.Aggregations = last.acc.finalAggs
                   /\ plan.Processors[r].Core.GroupCols = last.acc.finalGroupCols
            /\ NoEqualPair(L)
            /\ NoEqualPair(F)
            /\ \A e \in 1..Len(A) :
                   LET info == DistAggregationTable[A[e].Func]
                       rel == last.acc.relToAbsLocalIdx[e]
                   IN  /\ Len(rel) = Len(info.LocalStage)
                       /\ \A i \in 1..Len(rel) :
                              /\ rel[i] \in 0..(Len(L) - 1)
                              /\ At(L, rel[i]).Func = info.LocalStage[i]
                              /\ At(L, rel[i]).ColIdx = A[e].ColIdx
                              /\ At(L, rel[i]).FilterColIdx = A[e].FilterColIdx
            /\ \A f \in 1..Len(F) : \A k \in 1..Len(F[f].ColIdx) :
                   F[f].ColIdx[k] \in 0..(Len(L) - 1)
            /\ Len(G) = Len(last.groupCols)
            /\ \A i \in 1..Len(G) :
                   /\ G[i] \in 0..(Len(L) - 1)
                   /\ At(L, G[i]).Func = "IDENT"
                   /\ At(L, G[i]).ColIdx = <<last.groupCols[i]>>

\* Two filtered aggregations that share a local aggregation, with a group
\* column.
C26_Witness ==
    /\ TwoStages
    /\ Len(last.aggregations) = 2
    /\ \A e \in 1..2 : last.aggregations[e].FilterColIdx # <<>>
    /\ Len(LocalAggsOf(last.local)) = 3
    /\ Len(last.groupCols) = 1

(***************************************************************************)
(* Properties of addSorters.                                               *)
(***************************************************************************)
Sorted == phase = "sorted" /\ last.op = "sort"

\* The requested ordering on the stream columns of the plan before the sort.
RequestedOrdering ==
    [i \in 1..Len(last.n.ordering) |->
        [ColIdx |-> At(last.before.planToStreamColMap, last.n.ordering[i].ColIdx),
         Direction |-> last.n.ordering[i].Direction]]

\* A sorter on every result router of the plan before the sort, with the
\* requested ordering and the match length; or no new processor.
SorterStage ==
    LET b == last.before
        k == Len(b.ResultRouters)
        nb == Len(b.Processors)
    IN  IF last.matchLen < Len(last.n.ordering)
        THEN /\ Len(plan.Processors) = nb + k
             /\ plan.ResultRouters = [i \in 1..k |-> nb + i]
             /\ \A i \in 1..k :
                    /\ plan.Processors[nb + i].Node = b.Processors[b.ResultRouters[i]].Node
                    /\ plan.Processors[nb + i].Core.kind = "Sorter"
                    /\ plan.Processors[nb + i].Core.OutputOrdering = RequestedOrdering
                    /\ plan.Processors[nb + i].Core.OrderingMatchLen = last.matchLen
        ELSE /\ Len(plan.Processors) = nb
             /\ plan.ResultRouters = b.ResultRouters

Joined == phase = "joined" /\ last.op = "join"

\* The joiners: the processors of the last stage.
LastStage == {i \in 1..Len(plan.Processors) : plan.Processors[i].StageID = plan.stageCounter}

\* C29: a merge joiner is never planned for a join that outputs merged
\* equality columns: it is planned for inner joins only, it outputs the
\* columns of its two inputs and no merged column, and the panic 'merged
\* columns not supported by merge join' is never reached.
C29_NoMergedColumnsInMergeJoin ==
    Joined =>
        \A i \in LastStage :
            /\ plan.Processors[i].Core.kind \in {"HashJoiner", "MergeJoiner"}
            /\ plan.Processors[i].Core.kind = "MergeJoiner" =>
                   /\ last.n.joinType = "INNER"
                   /\ Len(plan.Processors[i].Core.out) =
                          Len(plan.Processors[i].Input[1].ColumnTypes) +
                          Len(plan.Processors[i].Input[2].ColumnTypes)

\* A merge joiner for an inner join whose joinNode has merged equality columns.
C29_Witness ==
    /\ Joined
    /\ last.n.numMergedEqualityColumns > 0
    /\ \E i \in LastStage : plan.Processors[i].Core.kind = "MergeJoiner"

(***************************************************************************)
(* Properties of the table readers of a query.                             *)
(***************************************************************************)
TableReaders(p) == {i \in 1..Len(p.Processors) : p.Processors[i].Core.kind = "TableReader"}

\* C27: partitionSpans returns at most one partition for a node, each with
\* at least one span; the plan has one table reader for each returned
\* partition, on the node and with the spans of the partition, all in one
\* stage, and no two table readers on one node.
C27_OneReaderPerNode ==
    /\ pc = "done" =>
           /\ \A i, j \in 1..Len(returned.partitions) :
                  i # j => returned.partitions[i].node # returned.partitions[j].node
           /\ \A i \in 1..Len(returned.partitions) : Len(returned.partitions[i].spans) >= 1
    /\ phase = "leaf" =>
           /\ TableReaders(plan) = 1..Len(last.spanPartitions)
           /\ \A i \in TableReaders(plan) :
                  /\ plan.Processors[i].Node = last.spanPartitions[i].node
                  /\ plan.Processors[i].Core.Spans = last.spanPartitions[i].spans
           /\ \A i, j \in TableReaders(plan) :
                  /\ plan.Processors[i].StageID = plan.Processors[j].StageID
                  /\ i # j => plan.Processors[i].Node # plan.Processors[j].Node

\* Two table readers, one of them with two spans.
C27_Witness ==
    /\ phase = "leaf"
    /\ last.op = "scan"
    /\ Cardinality(TableReaders(plan)) = 2
    /\ \E i \in TableReaders(plan) : Len(plan.Processors[i].Core.Spans) = 2

(***************************************************************************)
(* Termination of partitionSpans.                                          *)
(***************************************************************************)
\* The iteration ends the loop over the ranges of the current span.
SpanEnded == pc' = "done" \/ spanIdx' = spanIdx + 1

\* The loop over the ranges of a span ends with the first range that
\* reaches the end of the span, where the piece is clipped to the span; a
\* range that ends before it moves the iterator and the last key forward.
StopsAtSpanEnd ==
    Assigned =>
        LET rangeEnd == Desc(itKey).EndKey
            spanEnd == spans[spanIdx].EndKey
        IN  /\ SpanEnded <=> rangeEnd >= spanEnd
            /\ SpanEnded => lastAssign'.to = spanEnd
            /\ ~SpanEnded => /\ lastAssign'.to = rangeEnd
                             /\ lastKey' = rangeEnd
                             /\ lastKey' > lastKey
                             /\ itKey' > itKey
                             /\ spanIdx' = spanIdx

\* C30: over a resolver that yields the ranges in ascending order, without
\* gaps and without error, every call of partitionSpans returns; the loop
\* over the ranges of a span stops at the first range whose clipped end
\* reaches the end of the span; and the fatal 'next range doesn't cover last
\* end key' is never reached.
C30_Terminates ==
    /\ (pc = "loop") ~> (pc = "done")
    /\ [](pc \in {"idle", "loop", "done"})
    /\ [][StopsAtSpanEnd]_vars

\* A call over two spans has returned after a span that took two ranges.
C30_Witness ==
    /\ pc = "done"
    /\ Len(spans) = 2
    /\ lastAssign.valid
    /\ lastAssign.span = 2
    /\ lastAssign.from > spans[2].Key

====
